---- MODULE Spec2Model ----
(***************************************************************************)
(* OKX flexible-loan monitor: the durable price store (PriceCache), the    *)
(* cached price resolver (get_all_usd_pairs / get_usd_ticker_prices), the  *)
(* collateral valuation and the risk classification.                       *)
(*                                                                         *)
(* Conventions.  Time is the integer number of seconds of time.time().     *)
(* A price is a natural number of price units; the stablecoin price 1.0 is *)
(* the unit 1.  None is the Python None a lookup returns.                  *)
(***************************************************************************)
EXTENDS Integers, Sequences, FiniteSets, TLC

VARIABLES
    now,              \* time.time()
    store,            \* rows of table price_cache (committed state of the file)
    pc,               \* SpecStore: per process, position in a store operation
    job,              \* SpecStore: per process, the open transaction
    ret,              \* SpecStore: what the last PriceCache.get returned
    committed,        \* SpecStore: per currency, the write committed last
    price_cache,      \* per process, OKXLoanMonitor.price_cache
    cache_timestamp,  \* per process, OKXLoanMonitor.cache_timestamp
    nops,             \* number of operations begun so far (bounded by MaxOps)
    last,             \* record of the last resolver call
    risk,             \* SpecRisk: the position classified and the labels given
    batch,            \* SpecPairs: a batch response and the map built from it
    fn                \* the input and the result of one call of a function

vars == <<now, store, pc, job, ret, committed, price_cache, cache_timestamp,
          nops, last, risk, batch, fn>>

storeVars == <<pc, job, ret, committed>>
resolverVars == <<price_cache, cache_timestamp, last>>
pureVars == <<risk, batch, fn>>

-----------------------------------------------------------------------------
(* Bounds of the model *)

MaxTime == 360
MaxOps == 4
MaxStoreOps == 3
MaxPageLen == 2
MaxFill == 4
MaxLtv == 44

(* Program constants *)

DEFAULT_TTL == 300
CACHE_DURATION == 30
max_pages == 5
MaxDetails == 20
StablePrice == 1
None == -1

Procs == {"p1", "p2"}
TickSteps == {30, 90, 270}
StoreTickSteps == {150}

usd_quotes == <<"USDT", "USDC", "USD">>
stablecoins == <<"USDT", "USDC", "USD", "BUSD", "DAI", "USDP">>

Range(s) == {s[i] : i \in DOMAIN s}
StableSet == Range(stablecoins)

\* The currencies a loan's collateral names in the model
Ccy == {"BTC", "ETH", "USDC"}

EmptyMap == [c \in {} |-> 0]

\* d1 updated with d2, as dict.update / repeated item assignment
Update(d1, d2) ==
    [c \in DOMAIN d1 \cup DOMAIN d2 |-> IF c \in DOMAIN d2 THEN d2[c] ELSE d1[c]]

-----------------------------------------------------------------------------
(* PriceCache: table price_cache(currency PRIMARY KEY, price, timestamp,    *)
(* expires_at)                                                              *)

\* a row whose expires_at is the timestamp itself
Row_noTtl(c, p, t, ttl) ==
    [currency |-> c, price |-> p, timestamp |-> t, expires_at |-> t]

\* timestamp = int(time.time()); expires_at = timestamp + ttl
Row(c, p, t, ttl) ==
    [currency |-> c, price |-> p, timestamp |-> t, expires_at |-> t + ttl]

\* INSERT without the conflict clause: the row is added next to the old one
InsertOrReplace_keepOld(st, row) == st \cup {row}

\* INSERT OR REPLACE INTO price_cache: the row with the same key goes
InsertOrReplace(st, row) ==
    {r \in st : r.currency # row.currency} \cup {row}

\* get that returns the row of the currency, expired or not
PriceCacheGet_noExpiry(st, c, t) ==
    LET hits == {r \in st : r.currency = c}
    IN  IF hits = {} THEN None ELSE (CHOOSE r \in hits : TRUE).price

\* get with the comparison expires_at >= now
PriceCacheGet_ge(st, c, t) ==
    LET hits == {r \in st : r.currency = c /\ r.expires_at >= t}
    IN  IF hits = {} THEN None ELSE (CHOOSE r \in hits : TRUE).price

\* SELECT price FROM price_cache WHERE currency = ? AND expires_at > ?
PriceCacheGet(st, c, t) ==
    LET hits == {r \in st : r.currency = c /\ r.expires_at > t}
    IN  IF hits = {} THEN None ELSE (CHOOSE r \in hits : TRUE).price

\* set that writes nothing
PriceCacheSet_skip(st, c, p, t, ttl) == st

\* PriceCache.set, as one committed transaction at time t
PriceCacheSet(st, c, p, t, ttl) == InsertOrReplace(st, Row(c, p, t, ttl))

RECURSIVE SetBatchOver(_, _, _, _, _)
SetBatchOver(st, prices, keys, t, ttl) ==
    IF keys = {} THEN st
    ELSE LET c == CHOOSE k \in keys : TRUE
         IN  SetBatchOver(InsertOrReplace(st, Row(c, prices[c], t, ttl)),
                          prices, keys \ {c}, t, ttl)

\* PriceCache.set_batch, as one committed transaction at time t
PriceCacheSetBatch(st, prices, t, ttl) ==
    SetBatchOver(st, prices, DOMAIN prices, t, ttl)

\* the DELETE selecting on the timestamp column
CleanupOldEntries_byTimestamp(st, t) == {r \in st : ~(r.timestamp <= t)}

\* DELETE FROM price_cache WHERE expires_at <= ?
CleanupOldEntries(st, t) == {r \in st : ~(r.expires_at <= t)}

-----------------------------------------------------------------------------
(* The clock *)

\* the clock as the store operations see it
TickStore ==
    /\ \E d \in StoreTickSteps :
          /\ now + d <= MaxTime
          /\ now' = now + d
    /\ UNCHANGED <<store, storeVars, resolverVars, nops, pureVars>>

-----------------------------------------------------------------------------

(* SpecStore: PriceCache operations of two processes on one database file,  *)
(* statement by statement.  A statement of a transaction takes the file's   *)
(* write lock, which is held until the commit; readers see committed rows.  *)

StorePrices == {1, 2}
StoreCcy == {"BTC", "ETH", "USDC"}
NoJob == [kind |-> "none", writes |-> <<>>, timestamp |-> 0, done |-> 0]
NoWrite == [price |-> None, timestamp |-> 0, expires_at |-> 0]
NoRet == [currency |-> "none", price |-> None, flip |-> 0]

\* the write lock of the database file is free for p
LockFree(p) == \A q \in Procs \ {p} : pc[q] # "writing"

\* set: timestamp = int(time.time()); expires_at = timestamp + ttl
SetStamp(p) ==
    /\ pc[p] = "idle"
    /\ nops < MaxStoreOps
    /\ nops' = nops + 1
    /\ \E c \in StoreCcy, v \in StorePrices :
          job' = [job EXCEPT ![p] = [kind |-> "set",
                                     writes |-> <<[currency |-> c, price |-> v]>>,
                                     timestamp |-> now, done |-> 0]]
    /\ pc' = [pc EXCEPT ![p] = "stamped"]
    /\ UNCHANGED <<now, store, ret, committed, resolverVars, pureVars>>

\* set_batch: timestamp = int(time.time()); expires_at = timestamp + ttl
SetBatchStamp(p) ==
    /\ pc[p] = "idle"
    /\ nops < MaxStoreOps
    /\ nops' = nops + 1
    /\ \E v \in StorePrices :
          job' = [job EXCEPT ![p] =
                     [kind |-> "set_batch",
                      writes |-> <<[currency |-> "BTC", price |-> v],
                                   [currency |-> "USDC", price |-> v]>>,
                      timestamp |-> now, done |-> 0]]
    /\ pc' = [pc EXCEPT ![p] = "stamped"]
    /\ UNCHANGED <<now, store, ret, committed, resolverVars, pureVars>>

\* conn.execute(INSERT OR REPLACE ...): one statement inside the transaction
ExecuteInsert(p) ==
    /\ pc[p] \in {"stamped", "writing"}
    /\ job[p].kind \in {"set", "set_batch"}
    /\ job[p].done < Len(job[p].writes)
    /\ LockFree(p)
    /\ job' = [job EXCEPT ![p].done = @ + 1]
    /\ pc' = [pc EXCEPT ![p] = "writing"]
    /\ UNCHANGED <<now, store, ret, committed, resolverVars, nops, pureVars>>

RECURSIVE ApplyWrites(_, _, _, _)
ApplyWrites(st, writes, t, i) ==
    IF i > Len(writes) THEN st
    ELSE ApplyWrites(InsertOrReplace(st, Row(writes[i].currency, writes[i].price,
                                             t, DEFAULT_TTL)),
                     writes, t, i + 1)

\* the write of the job that is the last one for currency c
LastWriteFor(writes, c) ==
    LET idx == {i \in DOMAIN writes : writes[i].currency = c}
    IN  writes[CHOOSE i \in idx : \A j \in idx : j <= i]

\* conn.commit() of set / set_batch: the statements become visible together
CommitWrites(p) ==
    /\ pc[p] = "writing"
    /\ job[p].kind \in {"set", "set_batch"}
    /\ job[p].done = Len(job[p].writes)
    /\ store' = ApplyWrites(store, job[p].writes, job[p].timestamp, 1)
    /\ committed' =
          [c \in DOMAIN committed |->
              IF \E i \in DOMAIN job[p].writes : job[p].writes[i].currency = c
              THEN [price |-> LastWriteFor(job[p].writes, c).price,
                    timestamp |-> job[p].timestamp,
                    expires_at |-> job[p].timestamp + DEFAULT_TTL]
              ELSE committed[c]]
    /\ pc' = [pc EXCEPT ![p] = "idle"]
    /\ job' = [job EXCEPT ![p] = NoJob]
    /\ UNCHANGED <<now, ret, resolverVars, nops, pureVars>>

\* cleanup_old_entries: the DELETE statement, with int(time.time()) bound now
CleanupExecute(p) ==
    /\ pc[p] = "idle"
    /\ nops < MaxStoreOps
    /\ nops' = nops + 1
    /\ LockFree(p)
    /\ job' = [job EXCEPT ![p] = [kind |-> "cleanup", writes |-> <<>>,
                                  timestamp |-> now, done |-> 0]]
    /\ pc' = [pc EXCEPT ![p] = "writing"]
    /\ UNCHANGED <<now, store, ret, committed, resolverVars, pureVars>>

\* cleanup_old_entries: conn.commit()
CleanupCommit(p) ==
    /\ pc[p] = "writing"
    /\ job[p].kind = "cleanup"
    /\ store' = CleanupOldEntries(store, job[p].timestamp)
    /\ pc' = [pc EXCEPT ![p] = "idle"]
    /\ job' = [job EXCEPT ![p] = NoJob]
    /\ UNCHANGED <<now, ret, committed, resolverVars, nops, pureVars>>

\* PriceCache.get(currency) by a process that is between its own operations
StoreGet(p) ==
    /\ pc[p] = "idle"
    /\ \E c \in StoreCcy :
          ret' = [currency |-> c, price |-> PriceCacheGet(store, c, now),
                  flip |-> 1 - ret.flip]
    /\ UNCHANGED <<now, store, pc, job, committed, resolverVars, nops, pureVars>>

-----------------------------------------------------------------------------
NoCall == [proc |-> "none", seq |-> 0, currencies |-> <<>>, prices |-> EmptyMap,
           served |-> EmptyMap, batch_requests |-> 0, ticker_requests |-> 0,
           quoted |-> {}, repeat |-> "no", batch_calls |-> 0, pairs |-> EmptyMap,
           age |-> EmptyMap]
NoBatch == [done |-> FALSE, resp |-> <<>>, pairs |-> EmptyMap, requests |-> 0]
NoFn == [op |-> "none", reported |-> EmptyMap]
NoRisk == [phase |-> "none", has_loan |-> FALSE, current_ltv |-> 0,
           margin_call_ltv |-> 0, risk_level |-> "none", shown |-> "none",
           collateral_assets |-> <<>>, loan_snapshots |-> <<>>,
           collateral_details |-> <<>>, history |-> <<>>]

InitCommon ==
    /\ now = 0
    /\ store = {}
    /\ pc = [p \in Procs |-> "idle"]
    /\ job = [p \in Procs |-> NoJob]
    /\ ret = NoRet
    /\ committed = [c \in StoreCcy |-> NoWrite]
    /\ price_cache = [p \in Procs |-> EmptyMap]
    /\ cache_timestamp = [p \in Procs |-> 0]
    /\ nops = 0
    /\ last = NoCall
    /\ risk = NoRisk
    /\ batch = NoBatch
    /\ fn = NoFn

InitStore == InitCommon

NextStore ==
    \/ TickStore
    \/ \E p \in Procs : SetStamp(p)
    \/ \E p \in Procs : SetBatchStamp(p)
    \/ \E p \in Procs : ExecuteInsert(p)
    \/ \E p \in Procs : CommitWrites(p)
    \/ \E p \in Procs : CleanupExecute(p)
    \/ \E p \in Procs : CleanupCommit(p)
    \/ \E p \in Procs : StoreGet(p)

SpecStore == InitStore /\ [][NextStore]_vars

-----------------------------------------------------------------------------
(* SpecRisk: the risk classification of one run of the snapshot-keeping     *)
(* monitor: save_snapshot, then display_combined_metrics.  LTV values are   *)
(* whole percents; a quotient is kept as numerator and denominator, so      *)
(* (a / b) * 100 < k is a * 100 < k * b.                                    *)

MarginCallLtvs == {0, 20, 40}

Pct(num, den) == [num |-> num, den |-> den]
PctLess(q, k) == q.num < k * q.den

\* the if/elif chain of save_snapshot and display_combined_metrics with the
\* first comparison written <=
RiskChain_le(margin_call_pct, current_ltv, margin_call_ltv) ==
    IF PctLess(margin_call_pct, 70) \/ margin_call_pct.num = 70 * margin_call_pct.den
    THEN "SAFE"
    ELSE IF PctLess(margin_call_pct, 85) THEN "CAUTION"
    ELSE IF PctLess(margin_call_pct, 95) THEN "WARNING"
    ELSE IF current_ltv < margin_call_ltv THEN "HIGH_RISK"
    ELSE "MARGIN_CALL"

\* if margin_call_pct < 70 ... elif < 85 ... elif < 95 ... elif current_ltv <
\* margin_call_ltv ... else
RiskChain(margin_call_pct, current_ltv, margin_call_ltv) ==
    IF PctLess(margin_call_pct, 70) THEN "SAFE"
    ELSE IF PctLess(margin_call_pct, 85) THEN "CAUTION"
    ELSE IF PctLess(margin_call_pct, 95) THEN "WARNING"
    ELSE IF current_ltv < margin_call_ltv THEN "HIGH_RISK"
    ELSE "MARGIN_CALL"

\* save_snapshot: margin_call_pct = (current_ltv / margin_call_ltv) * 100
\*                                  if margin_call_ltv > 0 else 0
SaveRiskLevel(current_ltv, margin_call_ltv) ==
    LET margin_call_pct == IF margin_call_ltv > 0
                           THEN Pct(current_ltv * 100, margin_call_ltv)
                           ELSE Pct(0, 1)
    IN  RiskChain(margin_call_pct, current_ltv, margin_call_ltv)

\* display_combined_metrics: margin_call_pct = (current_ltv / margin_call_ltv)
\* * 100, a float division, which raises ZeroDivisionError on a zero divisor
DisplayRiskLabel(current_ltv, margin_call_ltv) ==
    IF margin_call_ltv = 0 THEN "ZeroDivisionError"
    ELSE RiskChain(Pct(current_ltv * 100, margin_call_ltv),
                   current_ltv, margin_call_ltv)

\* an INSERT that empties the table before it adds the row
InsertRow_replaceAll(table, row) == <<row>>

\* INSERT INTO a table with an AUTOINCREMENT id: the row is added at the end
InsertRow(table, row) == Append(table, row)

\* sorted(collateral_assets, key=usd_value, reverse=True): a stable sort
RECURSIVE SortedByUsdValue(_)
SortedByUsdValue(assets) ==
    IF assets = <<>> THEN <<>>
    ELSE LET top == CHOOSE i \in DOMAIN assets :
                       \A j \in DOMAIN assets :
                           \/ assets[j].usd_value < assets[i].usd_value
                           \/ (assets[j].usd_value = assets[i].usd_value /\ i <= j)
             rest == [k \in 1..(Len(assets) - 1) |->
                         IF k < top THEN assets[k] ELSE assets[k + 1]]
         IN  <<assets[top]>> \o SortedByUsdValue(rest)

\* for asset in sorted_collateral[:20]: if usd_value > 1.0: INSERT INTO
\* collateral_details
RECURSIVE InsertDetails(_, _, _, _)
InsertDetails(table, snapshot_id, assets, i) ==
    IF i > Len(assets) \/ i > MaxDetails THEN table
    ELSE InsertDetails(IF assets[i].usd_value > 1
                       THEN InsertRow(table, [snapshot_id |-> snapshot_id,
                                              currency |-> assets[i].currency,
                                              usd_value |-> assets[i].usd_value])
                       ELSE table,
                       snapshot_id, assets, i + 1)

\* run: self.save_snapshot(account_metrics, loan_metrics)
SaveSnapshot ==
    /\ risk.phase = "parsed"
    /\ risk' =
          IF ~risk.has_loan
          THEN [risk EXCEPT !.phase = "saved"]
          ELSE LET risk_level == SaveRiskLevel(risk.current_ltv,
                                               risk.margin_call_ltv)
                   snapshot_id == Len(risk.loan_snapshots) + 1
               IN  [risk EXCEPT
                      !.phase = "saved",
                      !.risk_level = risk_level,
                      !.loan_snapshots =
                          InsertRow(@, [id |-> snapshot_id,
                                        current_ltv |-> risk.current_ltv,
                                        margin_call_ltv |-> risk.margin_call_ltv,
                                        risk_level |-> risk_level]),
                      !.collateral_details =
                          InsertDetails(@, snapshot_id,
                                        SortedByUsdValue(risk.collateral_assets),
                                        1)]
    /\ UNCHANGED <<now, store, storeVars, resolverVars, nops, batch, fn>>

\* run: self.display_combined_metrics(account_metrics, loan_metrics)
DisplayCombinedMetrics ==
    /\ risk.phase = "saved"
    /\ risk' = [risk EXCEPT
                  !.phase = "displayed",
                  !.shown = IF ~risk.has_loan THEN "no_loan"
                            ELSE DisplayRiskLabel(risk.current_ltv,
                                                  risk.margin_call_ltv)]
    /\ UNCHANGED <<now, store, storeVars, resolverVars, nops, batch, fn>>

\* run: self.print_history_summary(hours=24), which get_history serves with
\* a SELECT on loan_snapshots, newest first; a display that raised has ended
\* the run before
PrintHistorySummary ==
    /\ risk.phase = "displayed"
    /\ risk.shown # "ZeroDivisionError"
    /\ risk' = [risk EXCEPT
                  !.phase = "done",
                  !.history = [i \in DOMAIN risk.loan_snapshots |->
                                 risk.loan_snapshots[Len(risk.loan_snapshots) + 1 - i].id]]
    /\ UNCHANGED <<now, store, storeVars, resolverVars, nops, batch, fn>>

\* the rows an earlier run has left in the database
OldSnapshot == [id |-> 1, current_ltv |-> 10, margin_call_ltv |-> 40,
                risk_level |-> "SAFE"]
OldDetail == [snapshot_id |-> 1, currency |-> "BTC", usd_value |-> 3]

Asset(c, v) == [currency |-> c, usd_value |-> v]
AssetValues == {1, 3}
AssetLists ==
    {<<>>} \cup {<<Asset("BTC", v)>> : v \in AssetValues}
           \cup {<<Asset("BTC", v), Asset("ETH", w)>> : v, w \in AssetValues}

\* the position parse_loan_info hands to save_snapshot
InitRisk ==
    /\ now = 0
    /\ store = {}
    /\ pc = [p \in Procs |-> "idle"]
    /\ job = [p \in Procs |-> NoJob]
    /\ ret = NoRet
    /\ committed = [c \in StoreCcy |-> NoWrite]
    /\ price_cache = [p \in Procs |-> EmptyMap]
    /\ cache_timestamp = [p \in Procs |-> 0]
    /\ nops = 0
    /\ last = NoCall
    /\ batch = NoBatch
    /\ fn = NoFn
    /\ \E h \in BOOLEAN, c \in 0..MaxLtv, m \in MarginCallLtvs :
       \E assets \in AssetLists, old \in BOOLEAN :
          risk = [phase |-> "parsed", has_loan |-> h,
                  current_ltv |-> IF h THEN c ELSE 0,
                  margin_call_ltv |-> IF h THEN m ELSE 0,
                  risk_level |-> "none", shown |-> "none",
                  collateral_assets |-> IF h THEN assets ELSE <<>>,
                  loan_snapshots |-> IF old THEN <<OldSnapshot>> ELSE <<>>,
                  collateral_details |-> IF old THEN <<OldDetail>> ELSE <<>>,
                  history |-> <<>>]

NextRisk == SaveSnapshot \/ DisplayCombinedMetrics \/ PrintHistorySummary

SpecRisk == InitRisk /\ [][NextRisk]_vars

(* Claims about the risk classification, checked under SpecRisk *)

\* C8: for current_ltv >= 0 and margin_call_ltv > 0, with r = current_ltv /
\* margin_call_ltv, save_snapshot labels SAFE iff r < 0.70, CAUTION iff
\* 0.70 <= r < 0.85, WARNING iff 0.85 <= r < 0.95, HIGH_RISK iff r >= 0.95 and
\* current_ltv < margin_call_ltv, MARGIN_CALL iff current_ltv >=
\* margin_call_ltv; the boundary values fall in the higher tier.
C8_TierBoundaries ==
    (risk.phase # "parsed" /\ risk.has_loan /\ risk.margin_call_ltv > 0) =>
        LET c == risk.current_ltv
            m == risk.margin_call_ltv
            l == risk.risk_level
        IN  /\ l \in {"SAFE", "CAUTION", "WARNING", "HIGH_RISK", "MARGIN_CALL"}
            /\ (l = "SAFE") <=> (100 * c < 70 * m)
            /\ (l = "CAUTION") <=> (70 * m <= 100 * c /\ 100 * c < 85 * m)
            /\ (l = "WARNING") <=> (85 * m <= 100 * c /\ 100 * c < 95 * m)
            /\ (l = "HIGH_RISK") <=> (95 * m <= 100 * c /\ c < m)
            /\ (l = "MARGIN_CALL") <=> (c >= m)

\* C8 witness: a position exactly on the 0.70 boundary has been labelled.
C8_Witness ==
    /\ risk.phase = "saved"
    /\ risk.has_loan
    /\ risk.margin_call_ltv > 0
    /\ 100 * risk.current_ltv = 70 * risk.margin_call_ltv
    /\ risk.risk_level = "CAUTION"

\* C9: with has_loan true and margin_call_ltv = 0, both save_snapshot and
\* display_combined_metrics yield SAFE and neither raises, for any
\* current_ltv.
C9_ZeroMarginIsSafeEverywhere ==
    (risk.phase = "displayed" /\ risk.has_loan /\ risk.margin_call_ltv = 0) =>
        (risk.risk_level = "SAFE" /\ risk.shown = "SAFE")

\* seq is table with rows added at its end and nothing else changed
Extends(seq, table) ==
    /\ Len(seq) >= Len(table)
    /\ \A i \in DOMAIN table : seq[i] = table[i]

\* C16: in a run, save_snapshot appends exactly one row to loan_snapshots
\* when has_loan is true and none when it is false, and no step of the run
\* (save_snapshot, display, print_history_summary with get_history) changes
\* or removes a row that loan_snapshots or collateral_details already holds.
C16_SnapshotsAppendOnly ==
    [][/\ Extends(risk'.loan_snapshots, risk.loan_snapshots)
       /\ Extends(risk'.collateral_details, risk.collateral_details)
       /\ Len(risk'.loan_snapshots) - Len(risk.loan_snapshots) =
             (IF risk.phase = "parsed" /\ risk.has_loan THEN 1 ELSE 0)
       /\ (risk.phase # "parsed" \/ ~risk.has_loan) =>
             risk'.collateral_details = risk.collateral_details]_vars

\* C16 witness: a run with a loan has ended on a database that held a
\* snapshot before: the old rows are as they were, one snapshot row and a
\* detail row have been added after them, and the history shows both.
C16_Witness ==
    /\ risk.phase = "done"
    /\ risk.has_loan
    /\ Len(risk.loan_snapshots) = 2
    /\ risk.loan_snapshots[1] = OldSnapshot
    /\ risk.loan_snapshots[2].risk_level = risk.risk_level
    /\ Len(risk.collateral_details) >= 2
    /\ risk.collateral_details[1] = OldDetail
    /\ risk.collateral_details[2].snapshot_id = 2
    /\ risk.history = <<2, 1>>

-----------------------------------------------------------------------------
(* Claims about the price store, checked under SpecStore *)

RowsOf(st, c) == {r \in st : r.currency = c}

\* C5: PriceCache.get returns a price only if a row of that currency exists
\* whose expires_at is strictly later than the current time; the write
\* committed last for the currency is never returned once the clock has
\* reached its expires_at, purged or not.
C5_GetOnlyUnexpired ==
    [][ret' # ret =>
         (ret'.price # None =>
             /\ \E r \in RowsOf(store, ret'.currency) :
                   r.price = ret'.price /\ r.expires_at > now
             /\ committed[ret'.currency].price = ret'.price
             /\ committed[ret'.currency].expires_at > now)]_vars

\* C5 witness: a get has answered None for a currency whose row is still in
\* the table with expires_at equal to the current time.
C5_Witness ==
    /\ ret.price = None
    /\ \E r \in RowsOf(store, ret.currency) : r.expires_at = now

\* C10: under any interleaving of set and set_batch by two processes the
\* table holds at most one row per currency, its three columns are those of
\* the write committed last, and a get returns the committed price (the old
\* one while a replacing transaction is open), never anything else.
C10_RowIsLastCommittedWrite ==
    /\ [](\A c \in StoreCcy :
            /\ Cardinality(RowsOf(store, c)) <= 1
            /\ \A r \in RowsOf(store, c) :
                  committed[c] = [price |-> r.price, timestamp |-> r.timestamp,
                                  expires_at |-> r.expires_at])
    /\ [][ret' # ret =>
            (ret'.price = None \/ ret'.price = committed[ret'.currency].price)]_vars

\* C10 witness: a process has an open transaction replacing a currency's row
\* with another price and an older timestamp than the committed row of the
\* other process, and a get has just returned the committed price.
C10_Witness ==
    \E p \in Procs : \E i \in DOMAIN job[p].writes : \E r \in store :
        /\ pc[p] = "writing"
        /\ r.currency = job[p].writes[i].currency
        /\ r.price # job[p].writes[i].price
        /\ r.timestamp > job[p].timestamp
        /\ ret.currency = r.currency
        /\ ret.price = r.price

\* a purge of process p commits in this step
PurgeCommits(p) == pc[p] = "writing" /\ job[p].kind = "cleanup" /\ pc'[p] = "idle"

\* C11: cleanup_old_entries deletes exactly the rows whose expires_at is at
\* most the time the purge read, every other row stays as it is, and, at any
\* point of any interleaving, the purge changes for no currency what get
\* returns.
C11_PurgeKeepsGetResults ==
    [][\A p \in Procs : PurgeCommits(p) =>
          /\ store' = {r \in store : r.expires_at > job[p].timestamp}
          /\ \A c \in StoreCcy :
                PriceCacheGet(store', c, now') = PriceCacheGet(store, c, now)]_vars

\* C11 witness: a purge has removed the committed row of a currency whose
\* expires_at equals the current time, and has left a younger row of another
\* currency, which get still returns.
C11_Witness ==
    \E c, d \in StoreCcy :
        /\ committed[c].price # None
        /\ committed[c].expires_at = now
        /\ RowsOf(store, c) = {}
        /\ \E r \in RowsOf(store, d) : r.expires_at > now
        /\ PriceCacheGet(store, d, now) # None
        /\ \A p \in Procs : pc[p] = "idle"

\* C19: after any sequence of set, set_batch and cleanup_old_entries calls
\* of the monitors, every row of the price store has expires_at strictly
\* greater than its timestamp (by the TTL of 300 s the callers pass).
C19_ExpiryAfterTimestamp ==
    \A r \in store :
        /\ r.expires_at > r.timestamp
        /\ r.expires_at = r.timestamp + DEFAULT_TTL

\* C19 witness: after a purge has removed the row of one currency, the store
\* holds a row written later than the start of the run.
C19_Witness ==
    /\ \E c \in StoreCcy : committed[c].price # None /\ RowsOf(store, c) = {}
    /\ \E r \in store : r.timestamp > 0 /\ r.expires_at > r.timestamp

-----------------------------------------------------------------------------
(* The cached resolver: get_all_usd_pairs and get_usd_ticker_prices.        *)
(*                                                                          *)
(* A ticker of the exchange is [base, quote, last]: instId is base-quote    *)
(* and last is the price string: a number >= 0, BadLast for a string float  *)
(* cannot parse, NoLast for an empty one.  A batch response is the sequence *)
(* of the ticker pages the exchange holds; a request for a page beyond it,  *)
(* like a failed request, brings no data.  The answer to a single-ticker    *)
(* request is the last of data[0], or NoData (transport error, non-zero     *)
(* code, empty data).                                                       *)

BadLast == -2
NoLast == -3
NoData == -4

Ticker(b, q, l) == [base |-> b, quote |-> q, last |-> l]

\* prices = {}; for stablecoin in stablecoins: prices[stablecoin] = 1.0
StablecoinPrices == [c \in StableSet |-> StablePrice]

\* one ticker of a page taken whatever the sign of its price
ParseTicker_noPositiveTest(prices, ticker) ==
    IF /\ ticker.last # NoLast
       /\ ticker.quote \in Range(usd_quotes)
       /\ ticker.last # BadLast
       /\ (ticker.base \notin DOMAIN prices \/ ticker.quote = "USDT")
    THEN Update(prices, [c \in {ticker.base} |-> ticker.last])
    ELSE prices

\* one ticker of a page, a base already present never being replaced
ParseTicker_firstWins(prices, ticker) ==
    IF /\ ticker.last # NoLast
       /\ ticker.quote \in Range(usd_quotes)
       /\ ticker.last # BadLast
       /\ ticker.last > 0
       /\ ticker.base \notin DOMAIN prices
    THEN Update(prices, [c \in {ticker.base} |-> ticker.last])
    ELSE prices

\* one ticker of a page: the body of "for ticker in tickers"
ParseTicker(prices, ticker) ==
    IF /\ ticker.last # NoLast
       /\ ticker.quote \in Range(usd_quotes)
       /\ ticker.last # BadLast
       /\ ticker.last > 0
       /\ (ticker.base \notin DOMAIN prices \/ ticker.quote = "USDT")
    THEN Update(prices, [c \in {ticker.base} |-> ticker.last])
    ELSE prices

RECURSIVE ParsePage(_, _, _)
ParsePage(prices, tickers, i) ==
    IF i > Len(tickers) THEN prices
    ELSE ParsePage(ParseTicker(prices, tickers[i]), tickers, i + 1)

\* the page loop without the page limit: it ends when the data ends
RECURSIVE FetchPages_noLimit(_, _, _)
FetchPages_noLimit(prices, resp, page) ==
    IF page <= Len(resp) /\ resp[page] # <<>>
    THEN FetchPages_noLimit(ParsePage(prices, resp[page], 1), resp, page + 1)
    ELSE [prices |-> prices, requests |-> page]

\* the page loop that returns an empty map when a request brings no data
RECURSIVE FetchPages_dropOnFailure(_, _, _)
FetchPages_dropOnFailure(prices, resp, page) ==
    IF page > max_pages THEN [prices |-> prices, requests |-> page - 1]
    ELSE IF page <= Len(resp) /\ resp[page] # <<>>
         THEN FetchPages_dropOnFailure(ParsePage(prices, resp[page], 1), resp,
                                       page + 1)
         ELSE [prices |-> EmptyMap, requests |-> page]

\* while page <= max_pages: request the page; parse it or break
RECURSIVE FetchPages(_, _, _)
FetchPages(prices, resp, page) ==
    IF page > max_pages THEN [prices |-> prices, requests |-> page - 1]
    ELSE IF page <= Len(resp) /\ resp[page] # <<>>
         THEN FetchPages(ParsePage(prices, resp[page], 1), resp, page + 1)
         ELSE [prices |-> prices, requests |-> page]

\* the freshness test with <= in place of <
SessionFresh_le(cache, cts, t) == DOMAIN cache # {} /\ (t - cts) <= CACHE_DURATION

\* the session cache may be served: non-empty and younger than CACHE_DURATION
SessionFresh(cache, cts, t) == DOMAIN cache # {} /\ (t - cts) < CACHE_DURATION

\* get_all_usd_pairs at time t, the exchange answering with resp
GetAllUsdPairs(cache, cts, st, t, resp) ==
    IF SessionFresh(cache, cts, t)
    THEN [pairs |-> cache, store |-> st, price_cache |-> cache,
          cache_timestamp |-> cts, requests |-> 0, fetched |-> FALSE]
    ELSE LET f == FetchPages(StablecoinPrices, resp, 1)
         IN  [pairs |-> f.prices,
              store |-> PriceCacheSetBatch(st, f.prices, t, DEFAULT_TTL),
              price_cache |-> f.prices, cache_timestamp |-> t,
              requests |-> f.requests, fetched |-> TRUE]

\* the quote loop that asks all three quotes before it takes the first
\* positive price
TickerLookup_exhaust(answers, i) ==
    LET pos == {k \in DOMAIN answers : answers[k] > 0}
    IN  [price |-> IF pos = {} THEN None
                   ELSE answers[CHOOSE k \in pos : \A j \in pos : k <= j],
         requests |-> Len(usd_quotes)]

\* the quote loop given up at the first request that brings no positive price
TickerLookup_abort(answers, i) ==
    IF answers[i] > 0
    THEN [price |-> answers[i], requests |-> i]
    ELSE [price |-> None, requests |-> i]

\* for quote in usd_quotes: request ccy-quote; the first positive last wins
RECURSIVE TickerLookup(_, _)
TickerLookup(answers, i) ==
    IF i > Len(usd_quotes) THEN [price |-> None, requests |-> Len(usd_quotes)]
    ELSE IF /\ answers[i] # NoData
            /\ answers[i] # NoLast
            /\ answers[i] # BadLast
            /\ answers[i] > 0
         THEN [price |-> answers[i], requests |-> i]
         ELSE TickerLookup(answers, i + 1)

\* the requests and the store write of the lookups of one currency, in the
\* order the loop makes them
LookupEvents(ccy, r) ==
    [k \in 1..r.requests |-> [op |-> "GET", ccy |-> ccy, quote |-> usd_quotes[k]]]
    \o (IF r.price # None
        THEN <<[op |-> "set", ccy |-> ccy, price |-> r.price, ttl |-> DEFAULT_TTL]>>
        ELSE <<>>)

\* one currency of still_missing whose lookups all failed keeps no entry
LookupOne_noFallback(acc, ccy, answers, t) ==
    LET r == TickerLookup(answers[ccy], 1)
    IN  IF r.price = None
        THEN [acc EXCEPT !.requests = @ + r.requests,
                         !.log = @ \o LookupEvents(ccy, r)]
        ELSE [prices |-> Update(acc.prices, [c \in {ccy} |-> r.price]),
              served |-> Update(acc.served, [c \in {ccy} |-> "ticker"]),
              store |-> PriceCacheSet(acc.store, ccy, r.price, t, DEFAULT_TTL),
              requests |-> acc.requests + r.requests,
              log |-> acc.log \o LookupEvents(ccy, r)]

\* one currency of still_missing: its lookups, the success written to the
\* store (cache.set), "if not price_found: prices[ccy] = 0.0" otherwise
LookupOne(acc, ccy, answers, t) ==
    LET r == TickerLookup(answers[ccy], 1)
        found == r.price # None
    IN  [prices |-> Update(acc.prices,
                           [c \in {ccy} |-> IF found THEN r.price ELSE 0]),
         served |-> Update(acc.served,
                           [c \in {ccy} |-> IF found THEN "ticker" ELSE "none"]),
         store |-> IF found
                   THEN PriceCacheSet(acc.store, ccy, r.price, t, DEFAULT_TTL)
                   ELSE acc.store,
         requests |-> acc.requests + r.requests,
         log |-> acc.log \o LookupEvents(ccy, r)]

\* for ccy in still_missing: if ccy in prices: continue; else look it up
RECURSIVE LookupMissing(_, _, _, _, _)
LookupMissing(acc, still_missing, i, answers, t) ==
    IF i > Len(still_missing) THEN acc
    ELSE IF still_missing[i] \in DOMAIN acc.prices
         THEN LookupMissing(acc, still_missing, i + 1, answers, t)
         ELSE LookupMissing(LookupOne(acc, still_missing[i], answers, t),
                            still_missing, i + 1, answers, t)

\* a first loop that finds no currency in the store
CachedPrices_none(st, currencies, t) == EmptyMap

\* the first loop of get_usd_ticker_prices: the currencies PriceCache.get has
\* a price for
CachedPrices(st, currencies, t) ==
    LET hit == {c \in Range(currencies) : PriceCacheGet(st, c, t) # None}
    IN  [c \in hit |-> PriceCacheGet(st, c, t)]

\* the batch map consulted for every currency of the list
BatchCandidates_all(currencies, cached) == currencies

\* the currencies the batch map is consulted for: the missing ones
BatchCandidates(currencies, cached) ==
    SelectSeq(currencies, LAMBDA c : c \notin DOMAIN cached)

\* get_usd_ticker_prices(currencies) at time t by a monitor with session cache
\* (cache, cts), the exchange answering batch requests with resp and
\* single-ticker requests with answers
GetUsdTickerPrices(cache, cts, st, t, currencies, resp, answers) ==
    LET cached == CachedPrices(st, currencies, t)
        missing_currencies == BatchCandidates(currencies, cached)
    IN  IF missing_currencies = <<>>
        THEN [prices |-> cached,
              served |-> [c \in DOMAIN cached |-> "store"],
              store |-> st, price_cache |-> cache, cache_timestamp |-> cts,
              batch_requests |-> 0, ticker_requests |-> 0,
              batch_calls |-> 0, pairs |-> EmptyMap, log |-> <<>>]
        ELSE
          LET g == GetAllUsdPairs(cache, cts, st, t, resp)
              newly_found == {c \in Range(missing_currencies) : c \in DOMAIN g.pairs}
              still_missing ==
                  SelectSeq(missing_currencies, LAMBDA c : c \notin DOMAIN g.pairs)
              new_prices == [c \in newly_found |-> g.pairs[c]]
              prices1 == Update(cached, new_prices)
              served1 == [c \in DOMAIN prices1 |->
                            IF c \in newly_found
                            THEN (IF g.fetched THEN "batch" ELSE "session")
                            ELSE "store"]
              store1 == IF newly_found # {}
                        THEN PriceCacheSetBatch(g.store, new_prices, t, DEFAULT_TTL)
                        ELSE g.store
              l == LookupMissing([prices |-> prices1, served |-> served1,
                                  store |-> store1, requests |-> 0, log |-> <<>>],
                                 still_missing, 1, answers, t)
          IN  [prices |-> l.prices, served |-> l.served, store |-> l.store,
               price_cache |-> g.price_cache,
               cache_timestamp |-> g.cache_timestamp,
               batch_requests |-> g.requests, ticker_requests |-> l.requests,
               batch_calls |-> 1, pairs |-> g.pairs, log |-> l.log]

-----------------------------------------------------------------------------
(* Spec: monitor processes sharing one price store call the resolver while  *)
(* the clock advances.                                                      *)

\* the currency lists a run passes to the resolver
CcyLists == {<<"BTC">>, <<"USDC">>, <<"ETH", "BTC">>, <<"BTC", "USDC">>}

\* the ticker pages the exchange may hold
Pages == { <<Ticker("BTC", "USDT", 0), Ticker("ETH", "USDT", 2)>>,
           <<Ticker("BTC", "USDT", 3), Ticker("ETH", "USDT", 3),
             Ticker("USDC", "USDT", 2)>> }

\* the batch responses: no data at all, or one page and then no more data
Responses == {<<>>} \cup {<<pg>> : pg \in Pages}

\* the answers to the three single-ticker requests for a currency
AnswerSeqs == {<<NoData, NoData, NoData>>, <<NoData, 0, 3>>, <<2, NoData, NoData>>,
               <<BadLast, NoLast, 0>>}

\* the currencies for which the exchange reported a parsable price, zero
\* included, in the single-ticker answers of a call that asked for them
Quoted(r, answers) ==
    {c \in DOMAIN answers :
        /\ c \in DOMAIN r.served
        /\ r.served[c] \in {"ticker", "none"}
        /\ \E i \in DOMAIN answers[c] : answers[c][i] >= 0}

\* the batch responses a call can consume: none when it sends no batch request
ResponsesFor(cache, cts, st, t, currencies) ==
    IF \/ BatchCandidates(currencies, CachedPrices(st, currencies, t)) = <<>>
       \/ SessionFresh(cache, cts, t)
    THEN {<<>>}
    ELSE Responses

\* the currencies a call sends single-ticker requests for
AskedTickers(cache, cts, st, t, currencies, resp) ==
    LET missing == BatchCandidates(currencies, CachedPrices(st, currencies, t))
    IN  IF missing = <<>> THEN {}
        ELSE Range(missing) \ DOMAIN GetAllUsdPairs(cache, cts, st, t, resp).pairs

\* the time at which the exchange reported the price a call serves for
\* currency c: the time of the call for a batch or ticker answer, the time of
\* the fetch for a session-cache entry, the time recorded for a store row
ReportedAt(p, c, how) ==
    IF how \in {"batch", "ticker"} THEN now
    ELSE IF how = "session" THEN cache_timestamp[p]
    ELSE IF how = "store" THEN fn.reported[c]
    ELSE now

\* the report times of the store rows after call r of process p: a fetch
\* writes its whole map, the write-back and the lookups write what they found
ReportedAfter(p, r) ==
    LET fetched == IF r.batch_requests > 0 THEN DOMAIN r.pairs ELSE {}
        found == {c \in DOMAIN r.served :
                     r.served[c] \in {"batch", "session", "ticker"}}
    IN  Update(fn.reported,
               [c \in fetched \cup found |->
                   IF c \in found THEN ReportedAt(p, c, r.served[c]) ELSE now])

\* get_usd_ticker_prices(currencies) called by process p
ResolverCall(p) ==
    /\ nops < MaxOps
    /\ nops' = nops + 1
    /\ \E currencies \in CcyLists :
       \E resp \in ResponsesFor(price_cache[p], cache_timestamp[p], store, now,
                                currencies) :
       \E answers \in [AskedTickers(price_cache[p], cache_timestamp[p], store,
                                    now, currencies, resp) -> AnswerSeqs] :
       \E r \in {GetUsdTickerPrices(price_cache[p], cache_timestamp[p], store,
                                    now, currencies, resp, answers)} :
          LET again == /\ last.proc = p
                       /\ last.seq = nops
                       /\ last.currencies = currencies
                       /\ SessionFresh(price_cache[p], cache_timestamp[p], now)
          IN  /\ store' = r.store
              /\ price_cache' = [price_cache EXCEPT ![p] = r.price_cache]
              /\ cache_timestamp' = [cache_timestamp EXCEPT ![p] = r.cache_timestamp]
              /\ last' = [proc |-> p, seq |-> nops + 1, currencies |-> currencies,
                          prices |-> r.prices, served |-> r.served,
                          batch_requests |-> r.batch_requests,
                          ticker_requests |-> r.ticker_requests,
                          quoted |-> Quoted(r, answers),
                          repeat |-> IF ~again THEN "no"
                                     ELSE IF \A c \in DOMAIN last.prices :
                                                last.prices[c] > 0
                                          THEN "priced" ELSE "unpriced",
                          batch_calls |-> r.batch_calls, pairs |-> r.pairs,
                          age |-> [c \in DOMAIN r.served |->
                                     now - ReportedAt(p, c, r.served[c])]]
              /\ fn' = [fn EXCEPT !.reported = ReportedAfter(p, r)]
    /\ UNCHANGED <<now, storeVars, risk, batch>>

\* time passes between two calls
Advance ==
    /\ nops < MaxOps
    /\ nops' = nops + 1
    /\ \E d \in TickSteps :
          /\ now + d <= MaxTime
          /\ now' = now + d
    /\ UNCHANGED <<store, storeVars, resolverVars, pureVars>>

Init == InitCommon

Next ==
    \/ Advance
    \/ \E p \in Procs : ResolverCall(p)

Spec == Init /\ [][Next]_vars

-----------------------------------------------------------------------------
(* Valuation of collateral: calculate_precise_usd_value and the collateral  *)
(* records of parse_loan_info.  An amount is a whole number of 1e-4, a      *)
(* price a whole number of 1e-5 USD and a USD value a whole number of 1e-9  *)
(* USD, so the product of an amount and a price is exact, as the Decimal    *)
(* product is.  One price unit of the resolver is PriceUnit of the 1e-5     *)
(* USD.  round() works on the binary float nearest to the product: when the *)
(* product lies exactly halfway between two neighbours the float may lie on *)
(* either side of it, so both neighbours are results the call can give.     *)

PriceUnit == 100000
Amounts == {1, 4000}

\* round(x, n): the multiples of d nearest to n, two of them on a tie
Rounded(n, d) ==
    LET q == n \div d
        r == n % d
    IN  IF 2 * r < d THEN {q * d}
        ELSE IF 2 * r > d THEN {(q + 1) * d}
        ELSE {q * d, (q + 1) * d}

\* the number of value units in one step of 8, 6 and 2 decimal places
Step8 == 10
Step6 == 1000
Step2 == 10000000

\* the prices 0.0001 and 0.01 in price units of 1e-5 USD
VeryLowPrice == 10
LowPrice == 1000

\* calculate_precise_usd_value that picks the places with <= in place of <
CalculatePreciseUsdValue_le(amount, price) ==
    LET usd_value == amount * price
    IN  IF price <= VeryLowPrice THEN Rounded(usd_value, Step8)
        ELSE IF price <= LowPrice THEN Rounded(usd_value, Step6)
        ELSE Rounded(usd_value, Step2)

\* calculate_precise_usd_value(amount, price, currency): the values the call
\* can return
CalculatePreciseUsdValue(amount, price) ==
    LET usd_value == amount * price
    IN  IF price < VeryLowPrice THEN Rounded(usd_value, Step8)
        ELSE IF price < LowPrice THEN Rounded(usd_value, Step6)
        ELSE Rounded(usd_value, Step2)

\* parse_loan_info: the collateral_assets records one collateralData item
\* with amt > 0 can give, for the price map of the resolver
CollateralAsset(ccy, amt, prices) ==
    {[currency |-> ccy, amount |-> amt, usd_value |-> v] :
        v \in IF DOMAIN prices # {} /\ ccy \in DOMAIN prices
              THEN CalculatePreciseUsdValue(amt, prices[ccy] * PriceUnit)
              ELSE IF ccy \in StableSet THEN {amt * PriceUnit}
              ELSE {0}}

-----------------------------------------------------------------------------
(* Claims about the resolver, checked under Spec *)

Called == last.proc # "none"
Requested == Range(last.currencies)

\* C1: every requested currency of the stablecoin set is returned with the
\* price exactly 1.0, whatever the store, the session cache and the ticker
\* responses hold (a stablecoin may be the base of a quoted pair).
C1_StablecoinIsOne ==
    Called => \A c \in Requested \cap StableSet : last.prices[c] = StablePrice

C6_EntryForEveryCurrency ==
    Called =>
        /\ DOMAIN last.prices = Requested
        /\ DOMAIN last.served = Requested
        /\ \A c \in Requested : last.served[c] = "none" => last.prices[c] = 0

\* C6 witness: a call for two currencies has returned, one found in no tier
\* and priced 0.0, the other found.
C6_Witness ==
    /\ Called
    /\ \E c, d \in Requested :
          /\ last.served[c] = "none" /\ last.prices[c] = 0
          /\ last.served[d] # "none" /\ last.prices[d] > 0

\* C7: in the price map and the collateral_assets records built from it, a
\* collateral asset whose price is unresolved (0.0 sentinel) can be told from
\* an asset that has a real price and a valuation that is zero.
C7_UnresolvedIsDistinguishable ==
    Called =>
        \A c, d \in Requested : \A amt \in Amounts :
            \A ac \in CollateralAsset(c, amt, last.prices),
               ad \in CollateralAsset(d, amt, last.prices) :
                ( /\ last.served[c] = "none" /\ c \notin last.quoted
                  /\ (last.served[d] # "none" \/ d \in last.quoted)
                  /\ ad.usd_value = 0 )
                => (last.prices[c] # last.prices[d] \/ ac.usd_value # ad.usd_value)

\* the resolver call made in this step, if one is made
CallStep == last'.seq = nops + 1

\* the currencies of the call just made that the store held unexpired
StoreHits ==
    {c \in Range(last'.currencies) : PriceCacheGet(store, c, now) # None}

\* the currencies the last call sent single-ticker requests for
Asked(l) == {c \in DOMAIN l.served : l.served[c] \in {"ticker", "none"}}

\* C21: a call whose currencies all have an unexpired store row sends no
\* request and does not invoke the batch tier; any other call invokes the
\* batch tier (get_all_usd_pairs) exactly once, and sends single-ticker
\* requests only for currencies found neither in the store nor in the batch
\* map, and for every such currency.
C21_TiersInFallbackOrder ==
    [][CallStep =>
          /\ (StoreHits = Range(last'.currencies)) =>
                /\ last'.batch_calls = 0
                /\ last'.batch_requests + last'.ticker_requests = 0
          /\ (StoreHits # Range(last'.currencies)) => last'.batch_calls = 1
          /\ Asked(last') =
                Range(last'.currencies) \ (StoreHits \cup DOMAIN last'.pairs)
          /\ (Asked(last') = {}) => last'.ticker_requests = 0
          /\ \A c \in Range(last'.currencies) \ Asked(last') :
                last'.served[c] = IF c \in StoreHits THEN "store"
                                 ELSE IF last'.batch_requests > 0 THEN "batch"
                                 ELSE "session"]_vars

\* C21 witness: two calls have been made; the last one, for two currencies,
\* found one in the store, invoked the batch tier once, did not find the
\* other in the batch map and looked it up individually.
C21_Witness ==
    /\ last.seq >= 2
    /\ last.batch_calls = 1
    /\ \E c, d \in Requested :
          /\ last.served[c] = "store"
          /\ d \notin DOMAIN last.pairs
          /\ last.served[d] = "ticker"
          /\ last.ticker_requests > 0

\* C28: every row of the price store has a price strictly greater than 0:
\* neither the 0.0 of a currency found in no tier nor a ticker price that is
\* not positive is written by get_all_usd_pairs or get_usd_ticker_prices.
C28_StoredPricesPositive ==
    \A r \in store : r.price > 0

\* C28 witness: a call has given a currency the price 0.0 after the batch
\* page and a single-ticker answer quoted it at zero; the store has rows,
\* none of them for that currency.
C28_Witness ==
    /\ Called
    /\ last.batch_requests > 0
    /\ \E c \in Requested :
          /\ last.served[c] = "none"
          /\ c \in last.quoted
          /\ last.prices[c] = 0
          /\ RowsOf(store, c) = {}
    /\ store # {}

\* C29: every positive price a call returns for a currency that is no
\* stablecoin was reported by the exchange at most 330 s before the call,
\* whatever calls, clock steps, session-cache hits and write-backs of the
\* processes sharing the store came before.
C29_PriceAgeBounded ==
    Called =>
        \A c \in Requested \ StableSet :
            last.prices[c] > 0 => last.age[c] <= 330

\* C29 witness: a call has served from the store a price that the exchange
\* reported to the other process 270 s before, after a session-cache hit of
\* that process.
C29_Witness ==
    /\ Called
    /\ \E c \in Requested \ StableSet :
          /\ last.served[c] = "store"
          /\ last.prices[c] > 0
          /\ last.age[c] = 270
          /\ \E r \in RowsOf(store, c) : r.timestamp = now - 270
    /\ \E p \in Procs : p # last.proc /\ DOMAIN price_cache[p] # {}

-----------------------------------------------------------------------------
(* SpecPairs: get_all_usd_pairs as a function of the batch response.  The   *)
(* exchange holds some filler pages of pairs with no USD quote and then two *)
(* pages drawn from a pool of tickers, each instId at most once; a monitor  *)
(* with an empty session cache fetches them.                                *)

TickerPool == {Ticker("BTC", "USDT", 3), Ticker("BTC", "USDC", 2),
               Ticker("BTC", "USD", 4), Ticker("ETH", "USDC", 2),
               Ticker("ETH", "USDT", 0)}

FillerPage == <<Ticker("ETH", "BTC", 1)>>

\* the pages of at most MaxPageLen tickers of the pool, none twice
PoolPages ==
    {pg \in UNION {[1..n -> TickerPool] : n \in 0..MaxPageLen} :
        \A i, j \in DOMAIN pg : i # j => pg[i] # pg[j]}

\* k filler pages, then pages a and b
PairResponse(k, a, b) == [i \in 1..k |-> FillerPage] \o <<a, b>>

PairResponses ==
    {PairResponse(k, a, b) : k \in 0..MaxFill,
                             a \in PoolPages,
                             b \in {pg \in PoolPages : Range(pg) # {}}}

InitPairs ==
    /\ now = 0
    /\ store = {}
    /\ pc = [p \in Procs |-> "idle"]
    /\ job = [p \in Procs |-> NoJob]
    /\ ret = NoRet
    /\ committed = [c \in StoreCcy |-> NoWrite]
    /\ price_cache = [p \in Procs |-> EmptyMap]
    /\ cache_timestamp = [p \in Procs |-> 0]
    /\ nops = 0
    /\ last = NoCall
    /\ risk = NoRisk
    /\ fn = NoFn
    /\ \E resp \in PairResponses :
          /\ \A t1, t2 \in Range(resp[Len(resp) - 1]) \cup Range(resp[Len(resp)]) :
                (t1.base = t2.base /\ t1.quote = t2.quote) => t1 = t2
          /\ batch = [NoBatch EXCEPT !.resp = resp]

\* get_all_usd_pairs() called by process p, whose session cache is empty
FetchAllUsdPairs(p) ==
    /\ ~batch.done
    /\ \E g \in {GetAllUsdPairs(price_cache[p], cache_timestamp[p], store, now,
                                batch.resp)} :
          /\ store' = g.store
          /\ price_cache' = [price_cache EXCEPT ![p] = g.price_cache]
          /\ cache_timestamp' = [cache_timestamp EXCEPT ![p] = g.cache_timestamp]
          /\ batch' = [batch EXCEPT !.done = TRUE, !.pairs = g.pairs,
                                    !.requests = g.requests]
    /\ UNCHANGED <<now, storeVars, nops, last, risk, fn>>

NextPairs == \E p \in Procs : FetchAllUsdPairs(p)

SpecPairs == InitPairs /\ [][NextPairs]_vars

(* Claims about get_all_usd_pairs, checked under SpecPairs *)

\* the number of the pages whose tickers the fetch loop has parsed
FetchedPageNumbers == (1..batch.requests) \cap DOMAIN batch.resp

\* the page and the position of the ticker base-quote among the fetched pages
PositionsOf(b, q) ==
    {<<i, j>> \in FetchedPageNumbers \X (1..MaxPageLen + 1) :
        /\ j \in DOMAIN batch.resp[i]
        /\ batch.resp[i][j].base = b
        /\ batch.resp[i][j].quote = q
        /\ batch.resp[i][j].last > 0}

\* C4: for every base X with an X-USDT and an X-USDC ticker of positive
\* price on the fetched pages, in any order and on any of those pages, the
\* map of get_all_usd_pairs gives X the X-USDT price.
C4_UsdtPreferred ==
    batch.done =>
        \A X \in {t.base : t \in TickerPool} :
            \A u \in PositionsOf(X, "USDT") :
                PositionsOf(X, "USDC") # {} =>
                    /\ X \in DOMAIN batch.pairs
                    /\ batch.pairs[X] = batch.resp[u[1]][u[2]].last

\* C4 witness: the fetch is done; X-USDC came on an earlier page than
\* X-USDT, which came on the last page the loop may fetch, and X has the
\* X-USDT price.
C4_Witness ==
    /\ batch.done
    /\ \E X \in {t.base : t \in TickerPool} :
       \E u \in PositionsOf(X, "USDT"), c \in PositionsOf(X, "USDC") :
          /\ c[1] < u[1]
          /\ u[1] = max_pages
          /\ batch.pairs[X] = batch.resp[u[1]][u[2]].last
          /\ batch.pairs[X] # batch.resp[c[1]][c[2]].last

\* the fetched pages hold a ticker base-quote, whatever its price
Listed(b, q) ==
    \E i \in FetchedPageNumbers : \E j \in DOMAIN batch.resp[i] :
        batch.resp[i][j].base = b /\ batch.resp[i][j].quote = q

\* C12: for a base X quoted in USDC and in USD and not in USDT, the batch
\* tier gives X the price the individual-lookup tier would give it, the
\* X-USDC price, in whatever order the tickers come in the batch response.
C12_TiersSelectSameQuote ==
    batch.done =>
        \A X \in {t.base : t \in TickerPool} :
            \A c \in PositionsOf(X, "USDC"), u \in PositionsOf(X, "USD") :
                ~Listed(X, "USDT") =>
                    /\ X \in DOMAIN batch.pairs
                    /\ batch.pairs[X] = batch.resp[c[1]][c[2]].last
                    /\ batch.pairs[X] =
                          TickerLookup(<<NoData, batch.resp[c[1]][c[2]].last,
                                         batch.resp[u[1]][u[2]].last>>, 1).price

-----------------------------------------------------------------------------
(* SpecLookup: one call of get_usd_ticker_prices whose batch request brings *)
(* no data, so that every currency of the list that is no stablecoin        *)
(* reaches the individual-lookup tier, for every combination of answers to  *)
(* the single-ticker requests.                                              *)

LookupLists == {<<"BTC">>, <<"BTC", "ETH">>, <<"ETH", "BTC">>}

\* what one single-ticker request may bring: no data (transport error,
\* non-zero code, empty data), an unparsable, an empty, a zero or a positive
\* last
LookupLasts == {NoData, BadLast, NoLast, 0, 2, 3}

InitLookup ==
    /\ now = 0
    /\ store = {}
    /\ pc = [p \in Procs |-> "idle"]
    /\ job = [p \in Procs |-> NoJob]
    /\ ret = NoRet
    /\ committed = [c \in StoreCcy |-> NoWrite]
    /\ price_cache = [p \in Procs |-> EmptyMap]
    /\ cache_timestamp = [p \in Procs |-> 0]
    /\ nops = 0
    /\ last = NoCall
    /\ risk = NoRisk
    /\ batch = NoBatch
    /\ \E currencies \in LookupLists :
       \E answers \in [Range(currencies) -> [DOMAIN usd_quotes -> LookupLasts]] :
          fn = [op |-> "lookup", done |-> FALSE, currencies |-> currencies,
                answers |-> answers, prices |-> EmptyMap, ticker_requests |-> 0,
                log |-> <<>>]

\* get_usd_ticker_prices(currencies) called by process p
LookupCall(p) ==
    /\ fn.op = "lookup"
    /\ ~fn.done
    /\ \E r \in {GetUsdTickerPrices(price_cache[p], cache_timestamp[p], store,
                                    now, fn.currencies, <<>>, fn.answers)} :
          /\ store' = r.store
          /\ price_cache' = [price_cache EXCEPT ![p] = r.price_cache]
          /\ cache_timestamp' = [cache_timestamp EXCEPT ![p] = r.cache_timestamp]
          /\ fn' = [fn EXCEPT !.done = TRUE, !.prices = r.prices,
                              !.ticker_requests = r.ticker_requests,
                              !.log = r.log]
    /\ UNCHANGED <<now, storeVars, nops, last, risk, batch>>

NextLookup == \E p \in Procs : LookupCall(p)

SpecLookup == InitLookup /\ [][NextLookup]_vars

(* Claims about the individual-lookup tier, checked under SpecLookup *)

\* the first positive price among the answers for one currency, 0 if none
FirstPositive(a) ==
    IF \E i \in DOMAIN a : a[i] > 0
    THEN a[CHOOSE i \in DOMAIN a : a[i] > 0 /\ \A j \in DOMAIN a : a[j] > 0 => i <= j]
    ELSE 0

\* C13: the call returns whatever lookups fail; the price of each currency Y
\* is decided by the answers for Y alone, a failed lookup for another
\* currency X changing nothing of it; a failed lookup falls through to the
\* next quote currency and, all three failing, to 0.0.
C13_FailedLookupIsLocal ==
    (fn.op = "lookup" /\ fn.done) =>
        /\ DOMAIN fn.prices = Range(fn.currencies)
        /\ \A Y \in Range(fn.currencies) :
              fn.prices[Y] = FirstPositive(fn.answers[Y])

\* C13 witness: the lookups for X, first in the list, have failed in three
\* ways and X is 0.0; Y, after it, has the price of its second quote, the
\* first having failed.
C13_Witness ==
    /\ fn.op = "lookup"
    /\ fn.done
    /\ Len(fn.currencies) = 2
    /\ LET X == fn.currencies[1]
           Y == fn.currencies[2]
       IN  /\ fn.answers[X] = <<NoData, BadLast, 0>>
           /\ fn.prices[X] = 0
           /\ fn.answers[Y][1] = BadLast
           /\ fn.answers[Y][2] = 3
           /\ fn.prices[Y] = 3

\* the positions of the log that concern currency c
EventsOf(c) == {i \in DOMAIN fn.log : fn.log[i].ccy = c}

\* the requests for currency c, as the quotes asked in the order of the log
QuotesAsked(c) ==
    LET reqs == SelectSeq(fn.log, LAMBDA e : e.ccy = c /\ e.op = "GET")
    IN  [k \in DOMAIN reqs |-> reqs[k].quote]

\* C22: for each currency that reaches the individual tier the requests go
\* out in the order USDT, USDC, USD, at most three of them, none after the
\* first answer with a positive price; that price is written to the store
\* with a TTL of 300 s right after the answer and before any request for the
\* next currency, and a currency with no positive answer is not written.
C22_LookupOrderAndWriteBack ==
    (fn.op = "lookup" /\ fn.done) =>
        \A c \in Range(fn.currencies) :
            LET a == fn.answers[c]
                pos == {k \in DOMAIN a : a[k] > 0}
                n == Len(QuotesAsked(c))
                sets == {i \in EventsOf(c) : fn.log[i].op = "set"}
            IN  /\ n >= 1 /\ n <= 3
                /\ QuotesAsked(c) = SubSeq(usd_quotes, 1, n)
                /\ \A k \in 1..(n - 1) : k \notin pos
                /\ (n < 3) => n \in pos
                /\ \A i, j \in EventsOf(c) : \A k \in i..j : k \in EventsOf(c)
                /\ IF n \in pos
                   THEN /\ \E i \in EventsOf(c) :
                             /\ sets = {i}
                             /\ \A j \in EventsOf(c) : j <= i
                             /\ fn.log[i].price = a[n]
                             /\ fn.log[i].ttl = 300
                        /\ Row(c, a[n], now, 300) \in store
                   ELSE /\ sets = {}
                        /\ RowsOf(store, c) = {}
                /\ fn.ticker_requests = Cardinality({i \in DOMAIN fn.log :
                                                       fn.log[i].op = "GET"})

\* C22 witness: of two currencies the first got its price from the second
\* quote and was written to the store before the three requests for the
\* second, which found no price.
C22_Witness ==
    /\ fn.op = "lookup"
    /\ fn.done
    /\ Len(fn.currencies) = 2
    /\ Len(fn.log) = 6
    /\ fn.log[2].quote = "USDC"
    /\ fn.log[3].op = "set"
    /\ fn.log[3].ccy = fn.currencies[1]
    /\ fn.log[4].ccy = fn.currencies[2]
    /\ fn.log[6].quote = "USD"
    /\ \E r \in store : r.currency = fn.currencies[1] /\ r.price = fn.log[3].price
    /\ fn.prices[fn.currencies[2]] = 0

\* the number of the first page whose request brings no data
FirstFailedPage ==
    CHOOSE f \in 1..(Len(batch.resp) + 1) :
        /\ f > Len(batch.resp) \/ batch.resp[f] = <<>>
        /\ \A i \in 1..(f - 1) : batch.resp[i] # <<>>

\* the positive USD-quoted prices of base b on the pages before page f
PricesBefore(b, f) ==
    {batch.resp[i][j].last : <<i, j>> \in
        {x \in ((1..(f - 1)) \cap DOMAIN batch.resp) \X (1..MaxPageLen + 1) :
            /\ x[2] \in DOMAIN batch.resp[x[1]]
            /\ batch.resp[x[1]][x[2]].base = b
            /\ batch.resp[x[1]][x[2]].quote \in Range(usd_quotes)
            /\ batch.resp[x[1]][x[2]].last > 0}}

\* C14: when the request for page k >= 2 brings no data, the map returned
\* holds the stablecoins and a price parsed from pages 1..k-1 for every base
\* quoted there, the function returns after k requests, and the partial map
\* is what the store and the session cache receive.
C14_PartialMapKept ==
    (batch.done /\ FirstFailedPage >= 2 /\ FirstFailedPage <= max_pages) =>
        /\ batch.requests = FirstFailedPage
        /\ StableSet \subseteq DOMAIN batch.pairs
        /\ \A b \in {t.base : t \in TickerPool} :
              /\ PricesBefore(b, FirstFailedPage) # {} =>
                    /\ b \in DOMAIN batch.pairs
                    /\ batch.pairs[b] \in PricesBefore(b, FirstFailedPage)
              /\ PricesBefore(b, FirstFailedPage) = {} =>
                    (b \in DOMAIN batch.pairs => b \in StableSet)
        /\ \E p \in Procs : price_cache[p] = batch.pairs
        /\ \A c \in DOMAIN batch.pairs :
              PriceCacheGet(store, c, now) = batch.pairs[c]

\* C14 witness: the request for a page k >= 2 within the page limit brought
\* no data and the map holds a price parsed from an earlier page.
C14_Witness ==
    /\ batch.done
    /\ FirstFailedPage >= 2
    /\ FirstFailedPage <= max_pages
    /\ \E b \in {t.base : t \in TickerPool} \ StableSet :
          /\ PricesBefore(b, FirstFailedPage) # {}
          /\ b \in DOMAIN batch.pairs
    /\ DOMAIN batch.pairs # StableSet

\* C15: get_all_usd_pairs returns after at most max_pages = 5 batch ticker
\* requests, also when the exchange has data on every page asked for and
\* holds more pages than that; no ticker beyond page 5 is used.
C15_AtMostFiveRequests ==
    batch.done =>
        /\ batch.requests <= max_pages
        /\ batch.requests <= 5
        /\ \A b \in DOMAIN batch.pairs \ StableSet :
              batch.pairs[b] \in PricesBefore(b, IF FirstFailedPage <= max_pages
                                                  THEN FirstFailedPage
                                                  ELSE max_pages + 1)

\* C15 witness: the exchange holds more than five pages, all with data, and
\* the fetch has ended after exactly five requests.
C15_Witness ==
    /\ batch.done
    /\ Len(batch.resp) > max_pages
    /\ \A i \in DOMAIN batch.resp : batch.resp[i] # <<>>
    /\ batch.requests = max_pages

-----------------------------------------------------------------------------
(* SpecParse: parse_loan_info as a function of the loan response and of the *)
(* price data it is given: the price map of the resolver in the cached      *)
(* monitor, the tickers response in the snapshot-keeping monitor.  An       *)
(* amount that float() cannot parse is BadLast.  LTVs of the response are   *)
(* whole hundredths, so that float(x) * 100 is a whole percent.  The result *)
(* is the metrics returned, or raised = TRUE when an exception leaves the   *)
(* function.                                                                *)

Item(c, a) == [ccy |-> c, amt |-> a]

LoanInfos ==
    { [collateralData |-> <<Item("BTC", 4000), Item("USDC", 1)>>,
       loanData |-> <<Item("USDT", 1000)>>,
       collateralNotionalUsd |-> 12, loanNotionalUsd |-> 1,
       curLTV |-> 10, marginCallLTV |-> 40, liqLTV |-> 50],
      [collateralData |-> <<Item("ETH", 1), Item("BTC", 0)>>,
       loanData |-> <<>>,
       collateralNotionalUsd |-> 0, loanNotionalUsd |-> 0,
       curLTV |-> 0, marginCallLTV |-> 0, liqLTV |-> 0],
      [collateralData |-> <<Item("BTC", BadLast)>>,
       loanData |-> <<Item("USDT", 1000)>>,
       collateralNotionalUsd |-> 12, loanNotionalUsd |-> 1,
       curLTV |-> 10, marginCallLTV |-> 40, liqLTV |-> 50] }

\* the loan responses: code '0', a non-zero code, a transport error, each
\* with an empty or a one-element data array
LoanResponses ==
    {[code |-> c, data |-> d] :
        c \in {"0", "51000", "error"},
        d \in {<<>>} \cup {<<i>> : i \in LoanInfos}}

\* the price maps the resolver may hand over
PriceMaps == {EmptyMap, [c \in {"BTC"} |-> 3], [c \in {"BTC", "ETH"} |-> 0]}

\* the tickers responses the snapshot-keeping monitor may hand over
TickerResponses ==
    { [code |-> "error", data |-> <<>>],
      [code |-> "0", data |-> <<Ticker("BTC", "USDC", 2), Ticker("BTC", "USDT", 3)>>],
      [code |-> "0", data |-> <<Ticker("ETH", "USDT", BadLast)>>] }

\* loan_metrics as initialised at the top of parse_loan_info
NoLoanMetrics ==
    [has_loan |-> FALSE, collateral_usd |-> 0, loan_usd |-> 0, current_ltv |-> 0,
     margin_call_ltv |-> 0, liquidation_ltv |-> 0,
     collateral_assets |-> <<>>, loan_assets |-> <<>>]

Returned(metrics) == [raised |-> FALSE, metrics |-> metrics]
Raised == [raised |-> TRUE, metrics |-> NoLoanMetrics]

\* for item in collateral_data: if amt > 0: append the record; the lists the
\* loop can build
RECURSIVE CollateralAssets(_, _, _)
CollateralAssets(items, prices, i) ==
    IF i > Len(items) THEN {<<>>}
    ELSE {head \o tail :
            head \in IF items[i].amt > 0
                     THEN {<<a>> : a \in CollateralAsset(items[i].ccy,
                                                         items[i].amt, prices)}
                     ELSE {<<>>},
            tail \in CollateralAssets(items, prices, i + 1)}

\* for item in loan_data_list: if amt > 0: append currency and amount
RECURSIVE LoanAssets(_, _)
LoanAssets(items, i) ==
    IF i > Len(items) THEN <<>>
    ELSE (IF items[i].amt > 0
          THEN <<[currency |-> items[i].ccy, amount |-> items[i].amt]>>
          ELSE <<>>) \o LoanAssets(items, i + 1)

\* float(item.get('amt', 0)) raises ValueError for some item
BadAmount(items) == \E i \in DOMAIN items : items[i].amt = BadLast

\* the metrics copied from the response
ApiMetrics(loan_info, collateral_assets, loan_assets) ==
    [has_loan |-> TRUE,
     collateral_usd |-> loan_info.collateralNotionalUsd,
     loan_usd |-> loan_info.loanNotionalUsd,
     current_ltv |-> loan_info.curLTV,
     margin_call_ltv |-> loan_info.marginCallLTV,
     liquidation_ltv |-> loan_info.liqLTV,
     collateral_assets |-> collateral_assets,
     loan_assets |-> loan_assets]

\* parse_loan_info that does not test the response code
ParseLoanInfo_noCodeTest(loan_data, prices) ==
    IF loan_data.data = <<>> THEN {Returned(NoLoanMetrics)}
    ELSE LET loan_info == loan_data.data[1]
         IN  IF BadAmount(loan_info.collateralData) \/ BadAmount(loan_info.loanData)
             THEN {Raised}
             ELSE {Returned(ApiMetrics(loan_info, assets,
                                       LoanAssets(loan_info.loanData, 1))) :
                      assets \in CollateralAssets(loan_info.collateralData,
                                                  prices, 1)}

\* parse_loan_info(loan_data, prices) of the cached monitor: the results the
\* call can give
ParseLoanInfo(loan_data, prices) ==
    IF loan_data.code # "0" THEN {Returned(NoLoanMetrics)}
    ELSE IF loan_data.data = <<>> THEN {Returned(NoLoanMetrics)}
    ELSE LET loan_info == loan_data.data[1]
         IN  IF BadAmount(loan_info.collateralData) \/ BadAmount(loan_info.loanData)
             THEN {Raised}
             ELSE {Returned(ApiMetrics(loan_info, assets,
                                       LoanAssets(loan_info.loanData, 1))) :
                      assets \in CollateralAssets(loan_info.collateralData,
                                                  prices, 1)}

\* the stablecoins of the snapshot-keeping monitor
TickerStablecoins == {"USDT", "USDC", "USD", "DAI", "TUSD", "BUSD"}

\* the price map built from the tickers: the first positive USD-quoted price
\* of a base, then the stablecoins set to 1.0
RECURSIVE TickerPrices(_, _, _)
TickerPrices(prices, tickers, i) ==
    IF i > Len(tickers)
    THEN Update(prices, [c \in TickerStablecoins |-> StablePrice])
    ELSE TickerPrices(IF /\ tickers[i].quote \in Range(usd_quotes)
                         /\ tickers[i].last > 0
                         /\ tickers[i].base \notin DOMAIN prices
                      THEN Update(prices, [c \in {tickers[i].base} |-> tickers[i].last])
                      ELSE prices,
                      tickers, i + 1)

\* float(ticker.get('last', 0)) raises ValueError for a USD-quoted ticker
BadTicker(tickers) ==
    \E i \in DOMAIN tickers :
        /\ tickers[i].quote \in Range(usd_quotes)
        /\ tickers[i].last \in {BadLast, NoLast}

\* the collateral records of the snapshot-keeping monitor: usd_value = amt *
\* price if price > 0 else 0.0, a float product left unrounded (its error is
\* far below the value unit), with the price kept in the record
RECURSIVE TickerCollateralAssets(_, _, _)
TickerCollateralAssets(items, prices, i) ==
    IF i > Len(items) THEN <<>>
    ELSE LET price == IF items[i].ccy \in DOMAIN prices
                      THEN prices[items[i].ccy] ELSE 0
         IN  (IF items[i].amt > 0
              THEN <<[currency |-> items[i].ccy, amount |-> items[i].amt,
                      usd_value |-> IF price > 0
                                    THEN items[i].amt * price * PriceUnit ELSE 0,
                      price |-> price]>>
              ELSE <<>>) \o TickerCollateralAssets(items, prices, i + 1)

\* parse_loan_info(loan_data, tickers_data) of the snapshot-keeping monitor
ParseLoanInfoFromTickers(loan_data, tickers_data) ==
    IF loan_data.code # "0" THEN Returned(NoLoanMetrics)
    ELSE IF loan_data.data = <<>> THEN Returned(NoLoanMetrics)
    ELSE LET loan_info == loan_data.data[1]
             tickers == IF tickers_data.code = "0" THEN tickers_data.data ELSE <<>>
         IN  IF \/ BadTicker(tickers)
                \/ BadAmount(loan_info.collateralData)
                \/ BadAmount(loan_info.loanData)
             THEN Raised
             ELSE Returned(ApiMetrics(loan_info,
                              TickerCollateralAssets(loan_info.collateralData,
                                                     TickerPrices(EmptyMap, tickers, 1),
                                                     1),
                              LoanAssets(loan_info.loanData, 1)))

InitParse ==
    /\ now = 0
    /\ store = {}
    /\ pc = [p \in Procs |-> "idle"]
    /\ job = [p \in Procs |-> NoJob]
    /\ ret = NoRet
    /\ committed = [c \in StoreCcy |-> NoWrite]
    /\ price_cache = [p \in Procs |-> EmptyMap]
    /\ cache_timestamp = [p \in Procs |-> 0]
    /\ nops = 0
    /\ last = NoCall
    /\ risk = NoRisk
    /\ batch = NoBatch
    /\ \E loan_data \in LoanResponses :
          \/ \E prices \in PriceMaps :
                fn = [op |-> "parse_loan_info", monitor |-> "cached",
                      loan_data |-> loan_data, prices |-> prices,
                      tickers_data |-> [code |-> "error", data |-> <<>>],
                      done |-> FALSE, result |-> Raised]
          \/ \E tickers_data \in TickerResponses :
                fn = [op |-> "parse_loan_info", monitor |-> "snapshots",
                      loan_data |-> loan_data, prices |-> EmptyMap,
                      tickers_data |-> tickers_data,
                      done |-> FALSE, result |-> Raised]

\* loan_metrics = self.parse_loan_info(loan_info, prices) in the cached monitor
ParseCached ==
    /\ fn.op = "parse_loan_info"
    /\ fn.monitor = "cached"
    /\ ~fn.done
    /\ \E result \in ParseLoanInfo(fn.loan_data, fn.prices) :
          fn' = [fn EXCEPT !.done = TRUE, !.result = result]
    /\ UNCHANGED <<now, store, storeVars, resolverVars, nops, risk, batch>>

\* loan_metrics = self.parse_loan_info(loan_info, tickers) in the
\* snapshot-keeping monitor
ParseFromTickers ==
    /\ fn.op = "parse_loan_info"
    /\ fn.monitor = "snapshots"
    /\ ~fn.done
    /\ fn' = [fn EXCEPT !.done = TRUE,
                        !.result = ParseLoanInfoFromTickers(fn.loan_data,
                                                            fn.tickers_data)]
    /\ UNCHANGED <<now, store, storeVars, resolverVars, nops, risk, batch>>

NextParse == ParseCached \/ ParseFromTickers

SpecParse == InitParse /\ [][NextParse]_vars

(* Claims about parse_loan_info, checked under SpecParse *)

\* the response is no loan: its code is not '0' or its data array is empty
NoLoanResponse == fn.loan_data.code # "0" \/ fn.loan_data.data = <<>>

\* C17: parse_loan_info returns has_loan = false exactly when the response's
\* code is not '0' or its data array is empty; it then returns, whatever the
\* price map or the tickers hold, with the five amounts 0 and both asset
\* lists empty.
C17_NoLoanExactly ==
    (fn.op = "parse_loan_info" /\ fn.done) =>
        /\ NoLoanResponse => ~fn.result.raised
        /\ ~fn.result.raised =>
              /\ ~fn.result.metrics.has_loan <=> NoLoanResponse
              /\ ~fn.result.metrics.has_loan =>
                    /\ fn.result.metrics.collateral_usd = 0
                    /\ fn.result.metrics.loan_usd = 0
                    /\ fn.result.metrics.current_ltv = 0
                    /\ fn.result.metrics.margin_call_ltv = 0
                    /\ fn.result.metrics.liquidation_ltv = 0
                    /\ fn.result.metrics.collateral_assets = <<>>
                    /\ fn.result.metrics.loan_assets = <<>>

\* C17 witness: a response with a non-zero code that still carries a data
\* array with collateral has been parsed with a price for that collateral,
\* and the result is the empty metrics.
C17_Witness ==
    /\ fn.op = "parse_loan_info"
    /\ fn.done
    /\ fn.loan_data.code # "0"
    /\ fn.loan_data.data # <<>>
    /\ \/ "BTC" \in DOMAIN fn.prices
       \/ fn.tickers_data.code = "0"
    /\ fn.result = Returned(NoLoanMetrics)

-----------------------------------------------------------------------------
(* SpecValue: calculate_precise_usd_value as a function of the amount and   *)
(* the price.                                                               *)

\* amounts from 0 to 2.0 in units of 1e-4
ValueAmounts == {0, 1, 3, 15, 123, 1234, 5000, 12345, 20000}

\* prices from 0 to 1.0 in units of 1e-5 USD, around 0.0001 and 0.01
ValuePrices == {0, 1, 5, 9, 10, 11, 50, 999, 1000, 1001, 50000, 100000}

InitValue ==
    /\ now = 0
    /\ store = {}
    /\ pc = [p \in Procs |-> "idle"]
    /\ job = [p \in Procs |-> NoJob]
    /\ ret = NoRet
    /\ committed = [c \in StoreCcy |-> NoWrite]
    /\ price_cache = [p \in Procs |-> EmptyMap]
    /\ cache_timestamp = [p \in Procs |-> 0]
    /\ nops = 0
    /\ last = NoCall
    /\ risk = NoRisk
    /\ batch = NoBatch
    /\ \E amount \in ValueAmounts, price \in ValuePrices :
          fn = [op |-> "calculate_precise_usd_value", amount |-> amount,
                price |-> price, done |-> FALSE, result |-> 0]

\* usd_value = self.calculate_precise_usd_value(amt, prices[ccy], ccy)
CalculateValue ==
    /\ fn.op = "calculate_precise_usd_value"
    /\ ~fn.done
    /\ \E usd_value \in CalculatePreciseUsdValue(fn.amount, fn.price) :
          fn' = [fn EXCEPT !.done = TRUE, !.result = usd_value]
    /\ UNCHANGED <<now, store, storeVars, resolverVars, nops, risk, batch>>

NextValue == CalculateValue

SpecValue == InitValue /\ [][NextValue]_vars

(* Claims about calculate_precise_usd_value, checked under SpecValue *)

\* v is x rounded to a multiple of d: a multiple at most half a step away
IsRounded(v, x, d) ==
    /\ v % d = 0
    /\ 2 * (IF v >= x THEN v - x ELSE x - v) <= d

\* C18: the result is the product amount x price rounded to 8 decimal places
\* when price < 0.0001, to 6 places when 0.0001 <= price < 0.01 and to 2
\* places when price >= 0.01, the prices 0.0001 and 0.01 themselves taking 6
\* and 2 places; it is never negative.
C18_PlacesByPrice ==
    (fn.op = "calculate_precise_usd_value" /\ fn.done) =>
        /\ fn.price < VeryLowPrice =>
              IsRounded(fn.result, fn.amount * fn.price, Step8)
        /\ (VeryLowPrice <= fn.price /\ fn.price < LowPrice) =>
              IsRounded(fn.result, fn.amount * fn.price, Step6)
        /\ fn.price >= LowPrice =>
              IsRounded(fn.result, fn.amount * fn.price, Step2)
        /\ fn.result >= 0

\* C18 witness: a product at the price 0.0001 that has more than 6 decimal
\* places has come back with 6.
C18_Witness ==
    /\ fn.op = "calculate_precise_usd_value"
    /\ fn.done
    /\ fn.price = VeryLowPrice
    /\ (fn.amount * fn.price) % Step6 # 0
    /\ fn.result % Step6 = 0
    /\ fn.result > 0

-----------------------------------------------------------------------------
(* SpecOptimized: the resolver of the ticker-snapshot monitor,              *)
(* get_usd_ticker_prices_optimized over get_all_tickers.  The map of        *)
(* get_all_tickers is keyed by instId, here the pair <<base, quote>>.  The  *)
(* quote currencies are held in a Python set of strings, whose iteration    *)
(* order is fixed by the hash seed of the process: any order, one per run.  *)

QuoteSet == {"USDT", "USDC", "USD"}

\* the iteration orders of the set usd_quote_currencies
SetOrders == {o \in [1..3 -> QuoteSet] : Range(o) = QuoteSet}

\* sorted(usd_quote_currencies, key=lambda x: x == 'USD', reverse=True): a
\* stable sort, the key True before the key False
SortedQuotes(order) ==
    SelectSeq(order, LAMBDA q : q = "USD") \o SelectSeq(order, LAMBDA q : q # "USD")

SnapshotPool == {Ticker("BTC", "USDT", 3), Ticker("BTC", "USDC", 2),
                 Ticker("BTC", "USD", 4), Ticker("ETH", "USDC", 2),
                 Ticker("ETH", "USDT", 0), Ticker("ETH", "USD", BadLast)}

\* the tickers responses: a failure, or code '0' with up to three tickers
SnapshotResponses ==
    {[code |-> "error", data |-> <<>>]} \cup
    {[code |-> "0", data |-> d] :
        d \in {x \in UNION {[1..n -> SnapshotPool] : n \in 0..3} :
                  \A i, j \in DOMAIN x : i # j => x[i] # x[j]}}

OptimizedLists == {<<"BTC">>, <<"ETH", "BTC">>, <<"BTC", "USDC">>}

\* for ticker in result['data']: if last_price and float(last_price) > 0:
\* tickers[inst_id] = float(last_price)
RECURSIVE TickerMap(_, _, _)
TickerMap(tickers, data, i) ==
    IF i > Len(data) THEN tickers
    ELSE TickerMap(IF data[i].last # NoLast /\ data[i].last > 0
                   THEN Update(tickers, [k \in {<<data[i].base, data[i].quote>>}
                                            |-> data[i].last])
                   ELSE tickers,
                   data, i + 1)

\* get_all_tickers(): the map of a successful response; {} when the request
\* failed, the data is empty or float(last_price) raised inside the try
GetAllTickers(result) ==
    IF result.code = "0" /\ result.data # <<>>
    THEN IF \E i \in DOMAIN result.data : result.data[i].last = BadLast
         THEN EmptyMap
         ELSE TickerMap(EmptyMap, result.data, 1)
    ELSE EmptyMap

\* for quote in sorted(...): if inst_id in all_tickers: take it and break
RECURSIVE FirstQuoted(_, _, _, _)
FirstQuoted(ccy, all_tickers, quotes, i) ==
    IF i > Len(quotes) THEN 0
    ELSE IF <<ccy, quotes[i]>> \in DOMAIN all_tickers
         THEN all_tickers[<<ccy, quotes[i]>>]
         ELSE FirstQuoted(ccy, all_tickers, quotes, i + 1)

\* get_usd_ticker_prices_optimized(currencies), the set iterating in order
GetUsdTickerPricesOptimized(currencies, all_tickers, order) ==
    [c \in Range(currencies) |->
        IF c \in StableSet THEN StablePrice
        ELSE FirstQuoted(c, all_tickers, SortedQuotes(order), 1)]

InitOptimized ==
    /\ now = 0
    /\ store = {}
    /\ pc = [p \in Procs |-> "idle"]
    /\ job = [p \in Procs |-> NoJob]
    /\ ret = NoRet
    /\ committed = [c \in StoreCcy |-> NoWrite]
    /\ price_cache = [p \in Procs |-> EmptyMap]
    /\ cache_timestamp = [p \in Procs |-> 0]
    /\ nops = 0
    /\ last = NoCall
    /\ risk = NoRisk
    /\ batch = NoBatch
    /\ \E currencies \in OptimizedLists, response \in SnapshotResponses,
          order \in SetOrders :
          fn = [op |-> "get_usd_ticker_prices_optimized", done |-> FALSE,
                currencies |-> currencies, response |-> response,
                order |-> order, all_tickers |-> EmptyMap, prices |-> EmptyMap]

\* prices = self.get_usd_ticker_prices_optimized(currencies), the first call
\* of the process, so that get_all_tickers sends its request
OptimizedCall ==
    /\ fn.op = "get_usd_ticker_prices_optimized"
    /\ ~fn.done
    /\ \E all_tickers \in {GetAllTickers(fn.response)} :
          fn' = [fn EXCEPT
                   !.done = TRUE,
                   !.all_tickers = all_tickers,
                   !.prices = GetUsdTickerPricesOptimized(fn.currencies,
                                                          all_tickers, fn.order)]
    /\ UNCHANGED <<now, store, storeVars, resolverVars, nops, risk, batch>>

NextOptimized == OptimizedCall

SpecOptimized == InitOptimized /\ [][NextOptimized]_vars

(* Claims about get_usd_ticker_prices_optimized, checked under SpecOptimized *)

\* the quotes in which the snapshot map prices currency X
QuotesOf(X) == {q \in QuoteSet : <<X, q>> \in DOMAIN fn.all_tickers}

\* the highest-ranked of a set of quotes in the order USDT > USDC > USD
HighestRanked(quotes) ==
    IF "USDT" \in quotes THEN "USDT"
    ELSE IF "USDC" \in quotes THEN "USDC"
    ELSE "USD"

\* C20: when the snapshot prices a requested currency X in more than one of
\* USDT, USDC and USD, the price returned is that of the highest-ranked
\* quote in the order USDT > USDC > USD, and every run of the program (every
\* iteration order of the quote set) makes the same choice.
C20_HighestRankedQuote ==
    (fn.op = "get_usd_ticker_prices_optimized" /\ fn.done) =>
        \A X \in Range(fn.currencies) \ StableSet :
            Cardinality(QuotesOf(X)) > 1 =>
                /\ fn.prices[X] = fn.all_tickers[<<X, HighestRanked(QuotesOf(X))>>]
                /\ \A order \in SetOrders :
                      GetUsdTickerPricesOptimized(fn.currencies, fn.all_tickers,
                                                  order)[X] = fn.prices[X]

-----------------------------------------------------------------------------
(* SpecSession: the session cache of two monitors as Python objects.  A map *)
(* is an object of the heap and a variable holds a reference to it, so that *)
(* dict.copy() and the sharing of one object by two references differ.  The *)
(* monitors call get_all_usd_pairs and get_usd_ticker_prices, the callers   *)
(* change the maps get_all_usd_pairs returned to them, the clock advances.  *)

SessionTickSteps == {20, 30}
SessionLists == {<<"BTC">>, <<"ETH", "BTC">>}

\* what a caller does to a map it was given: prices['BTC'] = 9
CallerEntry == [c \in {"BTC"} |-> 9]

\* a copy that is the object itself
Copy_alias(heap, ref) == [heap |-> heap, ref |-> ref]

\* dict.copy(): a new object with the entries of the old one
Copy(heap, ref) == [heap |-> Append(heap, heap[ref]), ref |-> Len(heap) + 1]

\* prices = {} ...: a new object holding the map the fetch loop has built
NewDict(heap, map) == [heap |-> Append(heap, map), ref |-> Len(heap) + 1]

NoFetch == [pairs |-> EmptyMap, t |-> 0, n |-> 0]
NoSessionCall == [proc |-> "none", seq |-> 0, requests |-> 0, pairs |-> EmptyMap]

InitSession ==
    /\ now = 0
    /\ store = {}
    /\ pc = [p \in Procs |-> "idle"]
    /\ job = [p \in Procs |-> NoJob]
    /\ ret = NoRet
    /\ committed = [c \in StoreCcy |-> NoWrite]
    /\ price_cache = [p \in Procs |-> EmptyMap]
    /\ cache_timestamp = [p \in Procs |-> 0]
    /\ nops = 0
    /\ last = NoCall
    /\ risk = NoRisk
    /\ batch = NoBatch
    /\ fn = [op |-> "session",
             heap |-> <<EmptyMap, EmptyMap>>,
             cache_ref |-> [p \in Procs |-> IF p = "p1" THEN 1 ELSE 2],
             ret_ref |-> [p \in Procs |-> 0],
             fetch |-> [p \in Procs |-> NoFetch],
             call |-> NoSessionCall]

\* the heap and the references of process p after a call that fetched (the
\* object prices, then self.price_cache = prices.copy()) or did not
\* (self.price_cache.copy() is returned)
SessionObjects(p, fetched, pairs) ==
    IF fetched
    THEN LET d == NewDict(fn.heap, pairs)
             c == Copy(d.heap, d.ref)
         IN  [heap |-> c.heap, cache_ref |-> c.ref, ret_ref |-> d.ref]
    ELSE LET c == Copy(fn.heap, fn.cache_ref[p])
         IN  [heap |-> c.heap, cache_ref |-> fn.cache_ref[p], ret_ref |-> c.ref]

\* get_all_usd_pairs() called by process p, the caller keeping the map
SessionPairsCall(p) ==
    /\ fn.op = "session"
    /\ nops < MaxOps
    /\ nops' = nops + 1
    /\ \E resp \in IF SessionFresh(price_cache[p], cache_timestamp[p], now)
                   THEN {<<>>} ELSE Responses :
       \E g \in {GetAllUsdPairs(price_cache[p], cache_timestamp[p], store, now,
                                resp)} :
       \E o \in {SessionObjects(p, g.fetched, g.pairs)} :
          /\ store' = g.store
          /\ cache_timestamp' = [cache_timestamp EXCEPT ![p] = g.cache_timestamp]
          /\ price_cache' = [price_cache EXCEPT ![p] = o.heap[o.cache_ref]]
          /\ fn' = [fn EXCEPT
                      !.heap = o.heap,
                      !.cache_ref[p] = o.cache_ref,
                      !.ret_ref[p] = o.ret_ref,
                      !.fetch[p] = IF g.fetched
                                   THEN [pairs |-> g.pairs, t |-> now,
                                         n |-> fn.fetch[p].n + 1]
                                   ELSE @,
                      !.call = [proc |-> p, seq |-> nops + 1,
                                requests |-> g.requests,
                                pairs |-> o.heap[o.ret_ref]]]
    /\ UNCHANGED <<now, storeVars, last, risk, batch>>

\* get_usd_ticker_prices(currencies) called by process p: the map its call of
\* get_all_usd_pairs returns is a local that is only read
SessionResolverCall(p) ==
    /\ fn.op = "session"
    /\ nops < MaxOps
    /\ nops' = nops + 1
    /\ \E currencies \in SessionLists :
       \E resp \in ResponsesFor(price_cache[p], cache_timestamp[p], store, now,
                                currencies) :
       \E answers \in [AskedTickers(price_cache[p], cache_timestamp[p], store,
                                    now, currencies, resp) -> AnswerSeqs] :
       \E r \in {GetUsdTickerPrices(price_cache[p], cache_timestamp[p], store,
                                    now, currencies, resp, answers)} :
       \E o \in {IF r.batch_calls = 1
                 THEN SessionObjects(p, r.batch_requests > 0, r.pairs)
                 ELSE [heap |-> fn.heap, cache_ref |-> fn.cache_ref[p],
                       ret_ref |-> 0]} :
          /\ store' = r.store
          /\ cache_timestamp' = [cache_timestamp EXCEPT ![p] = r.cache_timestamp]
          /\ price_cache' = [price_cache EXCEPT ![p] = o.heap[o.cache_ref]]
          /\ fn' = [fn EXCEPT
                      !.heap = o.heap,
                      !.cache_ref[p] = o.cache_ref,
                      !.fetch[p] = IF r.batch_requests > 0
                                   THEN [pairs |-> r.pairs, t |-> now,
                                         n |-> fn.fetch[p].n + 1]
                                   ELSE @]
          /\ last' = [NoCall EXCEPT !.proc = p, !.seq = nops + 1,
                                    !.currencies = currencies,
                                    !.prices = r.prices, !.served = r.served]
    /\ UNCHANGED <<now, storeVars, risk, batch>>

\* the caller of get_all_usd_pairs changes the map it was given
SessionMutate(p) ==
    /\ fn.op = "session"
    /\ nops < MaxOps
    /\ nops' = nops + 1
    /\ fn.ret_ref[p] # 0
    /\ \E heap \in {[fn.heap EXCEPT ![fn.ret_ref[p]] = Update(@, CallerEntry)]} :
          /\ fn' = [fn EXCEPT !.heap = heap]
          /\ price_cache' = [q \in Procs |-> heap[fn.cache_ref[q]]]
    /\ UNCHANGED <<now, store, storeVars, cache_timestamp, last, risk, batch>>

\* time passes between two calls
SessionTick ==
    /\ fn.op = "session"
    /\ nops < MaxOps
    /\ nops' = nops + 1
    /\ \E d \in SessionTickSteps :
          /\ now + d <= MaxTime
          /\ now' = now + d
    /\ UNCHANGED <<store, storeVars, resolverVars, pureVars>>

NextSession ==
    \/ SessionTick
    \/ \E p \in Procs : SessionPairsCall(p)
    \/ \E p \in Procs : SessionResolverCall(p)
    \/ \E p \in Procs : SessionMutate(p)

SpecSession == InitSession /\ [][NextSession]_vars

(* Claims about the session cache, checked under SpecSession *)

\* process p returns from get_all_usd_pairs in this step
PairsReturn(p) == fn'.call.seq = nops + 1 /\ fn'.call.proc = p

\* C23: get_all_usd_pairs returns the session-cached map, sends no request,
\* writes nothing to the store and leaves the cache and its timestamp as they
\* are exactly when the cache is non-empty and now - cache_timestamp < 30;
\* in every other case, 30 s sharp included, it sends at least one batch
\* request, writes the map it built to the store and makes that map, stamped
\* with the current time, the session cache.
C23_SessionCacheServedWhenFresh ==
    [][\A p \in Procs : PairsReturn(p) =>
          IF DOMAIN price_cache[p] # {} /\ now - cache_timestamp[p] < 30
          THEN /\ fn'.call.requests = 0
               /\ fn'.call.pairs = price_cache[p]
               /\ store' = store
               /\ price_cache'[p] = price_cache[p]
               /\ cache_timestamp'[p] = cache_timestamp[p]
               /\ fn'.fetch[p] = fn.fetch[p]
          ELSE /\ fn'.call.requests >= 1
               /\ fn'.fetch[p].n = fn.fetch[p].n + 1
               /\ fn'.call.pairs = fn'.fetch[p].pairs
               /\ price_cache'[p] = fn'.call.pairs
               /\ cache_timestamp'[p] = now
               /\ \A c \in DOMAIN fn'.call.pairs :
                     Row(c, fn'.call.pairs[c], now, 300) \in store']_vars

\* C23 witness: a monitor has fetched twice, the second time exactly 30 s
\* after the first, and has since been served from its session cache.
C23_Witness ==
    \E p \in Procs :
        /\ fn.op = "session"
        /\ fn.fetch[p].n = 2
        /\ fn.fetch[p].t = 30
        /\ cache_timestamp[p] = 30
        /\ fn.call.proc = p
        /\ fn.call.requests = 0
        /\ fn.call.seq = nops
        /\ fn.call.pairs = price_cache[p]

\* C24: the session cache of a monitor is empty, as at construction, or it is
\* the whole map one single batch fetch of that monitor built, stamped with
\* the time of that fetch: no entry of another fetch or of an individual
\* lookup is in it (a price the call just made has looked up is not added),
\* and no change a caller makes to a map get_all_usd_pairs returned shows in
\* it.
C24_CacheIsOneBatchSnapshot ==
    fn.op = "session" =>
        \A p \in Procs :
            /\ price_cache[p] = fn.heap[fn.cache_ref[p]]
            /\ IF fn.fetch[p].n = 0
               THEN price_cache[p] = EmptyMap /\ cache_timestamp[p] = 0
               ELSE /\ price_cache[p] = fn.fetch[p].pairs
                    /\ cache_timestamp[p] = fn.fetch[p].t
            /\ \A c \in DOMAIN last.served :
                  (last.proc = p /\ last.seq = nops /\ last.served[c] = "ticker") =>
                      c \notin DOMAIN price_cache[p]

\* C24 witness: a monitor has fetched, its caller has changed the map it was
\* given, and an individual lookup of the same monitor has then found a
\* price; the session cache is still the map of the fetch and has neither
\* the caller's entry nor the looked-up currency.
C24_Witness ==
    \E p \in Procs : \E c \in DOMAIN last.served :
        /\ fn.op = "session"
        /\ fn.fetch[p].n = 1
        /\ fn.ret_ref[p] # 0
        /\ "BTC" \in DOMAIN fn.heap[fn.ret_ref[p]]
        /\ fn.heap[fn.ret_ref[p]]["BTC"] = CallerEntry["BTC"]
        /\ last.proc = p
        /\ last.seq = nops
        /\ last.served[c] = "ticker"
        /\ last.prices[c] > 0
        /\ price_cache[p] = fn.fetch[p].pairs
        /\ c \notin DOMAIN price_cache[p]

-----------------------------------------------------------------------------
(* Claims about get_all_tickers, checked under SpecOptimized *)

\* C25: when the tickers response is successful and one of its tickers has
\* a malformed last price, the prices parsed from the tickers before it are
\* in the map get_all_tickers returns, and the resolution uses them.
C25_PartialTickersKept ==
    (fn.op = "get_usd_ticker_prices_optimized" /\ fn.done
        /\ fn.response.code = "0") =>
        \A i \in DOMAIN fn.response.data :
            fn.response.data[i].last = BadLast =>
                \A j \in 1..(i - 1) :
                    LET t == fn.response.data[j]
                    IN  (t.last # NoLast /\ t.last > 0) =>
                            /\ <<t.base, t.quote>> \in DOMAIN fn.all_tickers
                            /\ fn.all_tickers[<<t.base, t.quote>>] = t.last

-----------------------------------------------------------------------------
(* SpecDataCache: OKXDataCache and the cached fetches built on it.  The     *)
(* table cache(key PRIMARY KEY, data, timestamp DEFAULT CURRENT_TIMESTAMP,  *)
(* expires_at) gets its timestamp from SQLite, which is UTC, and its        *)
(* expires_at from datetime.now(), the local time of the host; get compares *)
(* both with datetime.now().  now is the UTC time in seconds and the offset *)
(* of the host's zone is fixed when the process starts.                     *)

UtcOffsets == {0 - 18000, 0, 10800}
DataTickSteps == {20, 30}

\* the maximal age and the expiry get_account_balance_cached and
\* get_flexible_loan_info_cached pass
BalanceAge == 60
LoanInfoAge == 30

\* the arguments of the direct calls of get and set
MaxAges == {10, 60}
ExpireSeconds == {30, 300}

\* a response of _request: code '0', an application error, the dict _request
\* makes of a transport error, or an empty JSON object
EmptyDict == [code |-> "absent", id |-> 0]
DataResponses ==
    {[code |-> c, id |-> i] : c \in {"0", "51000", "error"}, i \in {1, 2}}
    \cup {EmptyDict}

\* Python None
DcNone == [code |-> "None", id |-> 0]

\* json.dumps(data) and json.loads(data)
Dumps(data) == [json |-> data]
Loads(text) == text.json

\* datetime.now(): the local time of a host offset seconds east of UTC
LocalNow(t, offset) == t + offset

\* OKXDataCache.get(key, max_age_seconds)
DataCacheGet(rows, key, max_age_seconds, t, offset) ==
    IF key \in DOMAIN rows /\ rows[key].expires_at > LocalNow(t, offset)
    THEN IF LocalNow(t, offset) - rows[key].timestamp < max_age_seconds
         THEN Loads(rows[key].data)
         ELSE DcNone
    ELSE DcNone

\* OKXDataCache.set(key, data, expire_seconds)
DataCacheSet(rows, key, data, expire_seconds, t, offset) ==
    Update(rows, [k \in {key} |->
                    [data |-> Dumps(data), timestamp |-> t,
                     expires_at |-> LocalNow(t, offset) + expire_seconds]])

\* if cached_data: a dict is true unless it is empty
Truthy(data) == data # DcNone /\ data # EmptyDict

\* the body shared by get_account_balance_cached and
\* get_flexible_loan_info_cached: serve the cached dict or fetch and cache
CachedFetch(rows, key, age, t, offset, response) ==
    LET cached_data == DataCacheGet(rows, key, age, t, offset)
    IN  IF Truthy(cached_data)
        THEN [data |-> cached_data, rows |-> rows, requests |-> 0,
              from_cache |-> TRUE]
        ELSE [data |-> response,
              rows |-> DataCacheSet(rows, key, response, age, t, offset),
              requests |-> 1, from_cache |-> FALSE]

GetAccountBalanceCached(rows, t, offset, response) ==
    CachedFetch(rows, "account_balance", BalanceAge, t, offset, response)

GetFlexibleLoanInfoCached(rows, t, offset, response) ==
    CachedFetch(rows, "flexible_loan_info", LoanInfoAge, t, offset, response)

NoDataCall == [name |-> "none", key |-> "none", seq |-> 0, data |-> DcNone,
               requests |-> 0, from_cache |-> FALSE, max_age_seconds |-> 0]

InitDataCache ==
    /\ now = 0
    /\ store = {}
    /\ pc = [p \in Procs |-> "idle"]
    /\ job = [p \in Procs |-> NoJob]
    /\ ret = NoRet
    /\ committed = [c \in StoreCcy |-> NoWrite]
    /\ price_cache = [p \in Procs |-> EmptyMap]
    /\ cache_timestamp = [p \in Procs |-> 0]
    /\ nops = 0
    /\ last = NoCall
    /\ risk = NoRisk
    /\ batch = NoBatch
    /\ \E offset \in UtcOffsets :
          fn = [op |-> "datacache", utc_offset |-> offset, rows |-> EmptyMap,
                written |-> EmptyMap, call |-> NoDataCall]

\* the row a set at the current time writes, as the caller means it
Written(key, data, expire_seconds) ==
    [k \in {key} |-> [data |-> data, at |-> now,
                      expire_seconds |-> expire_seconds]]

\* the state after a cached fetch r under the name and key given
AfterCachedFetch(name, key, age, r) ==
    /\ fn' = [fn EXCEPT
                !.rows = r.rows,
                !.written = IF r.from_cache THEN @
                            ELSE Update(@, Written(key, r.data, age)),
                !.call = [name |-> name, key |-> key, seq |-> nops + 1,
                          data |-> r.data, requests |-> r.requests,
                          from_cache |-> r.from_cache,
                          max_age_seconds |-> age]]
    /\ nops' = nops + 1
    /\ UNCHANGED <<now, store, storeVars, resolverVars, risk, batch>>

\* balance = self.get_account_balance_cached()
AccountBalanceCached ==
    /\ fn.op = "datacache"
    /\ nops < MaxOps
    /\ \E response \in
           IF Truthy(DataCacheGet(fn.rows, "account_balance", BalanceAge, now,
                                  fn.utc_offset))
           THEN {EmptyDict} ELSE DataResponses :
          AfterCachedFetch("get_account_balance_cached", "account_balance",
                           BalanceAge,
                           GetAccountBalanceCached(fn.rows, now, fn.utc_offset,
                                                   response))

\* loan_info = self.get_flexible_loan_info_cached()
FlexibleLoanInfoCached ==
    /\ fn.op = "datacache"
    /\ nops < MaxOps
    /\ \E response \in
           IF Truthy(DataCacheGet(fn.rows, "flexible_loan_info", LoanInfoAge,
                                  now, fn.utc_offset))
           THEN {EmptyDict} ELSE DataResponses :
          AfterCachedFetch("get_flexible_loan_info_cached",
                           "flexible_loan_info", LoanInfoAge,
                           GetFlexibleLoanInfoCached(fn.rows, now, fn.utc_offset,
                                                     response))

\* self.cache.set(key, data, expire_seconds) called on its own
DataSet ==
    /\ fn.op = "datacache"
    /\ nops < MaxOps
    /\ nops' = nops + 1
    /\ \E data \in {[code |-> "0", id |-> i] : i \in {1, 2}},
          expire_seconds \in ExpireSeconds :
          fn' = [fn EXCEPT
                   !.rows = DataCacheSet(@, "prices_BTC", data, expire_seconds,
                                         now, fn.utc_offset),
                   !.written = Update(@, Written("prices_BTC", data,
                                                 expire_seconds)),
                   !.call = [NoDataCall EXCEPT !.name = "set",
                                               !.key = "prices_BTC",
                                               !.seq = nops + 1,
                                               !.data = data]]
    /\ UNCHANGED <<now, store, storeVars, resolverVars, risk, batch>>

\* self.cache.get(key, max_age_seconds) called on its own
DataGet ==
    /\ fn.op = "datacache"
    /\ nops < MaxOps
    /\ nops' = nops + 1
    /\ \E max_age_seconds \in MaxAges :
          fn' = [fn EXCEPT
                   !.call = [NoDataCall EXCEPT
                               !.name = "get",
                               !.key = "prices_BTC",
                               !.seq = nops + 1,
                               !.max_age_seconds = max_age_seconds,
                               !.data = DataCacheGet(fn.rows, "prices_BTC",
                                                     max_age_seconds, now,
                                                     fn.utc_offset)]]
    /\ UNCHANGED <<now, store, storeVars, resolverVars, risk, batch>>

\* time passes between two calls
DataTick ==
    /\ fn.op = "datacache"
    /\ nops < MaxOps
    /\ nops' = nops + 1
    /\ \E d \in DataTickSteps :
          /\ now + d <= MaxTime
          /\ now' = now + d
    /\ UNCHANGED <<store, storeVars, resolverVars, pureVars>>

NextDataCache ==
    \/ DataTick
    \/ AccountBalanceCached
    \/ FlexibleLoanInfoCached
    \/ DataSet
    \/ DataGet

SpecDataCache == InitDataCache /\ [][NextDataCache]_vars

(* Claims about OKXDataCache and the cached fetches, checked under          *)
(* SpecDataCache                                                            *)

\* C26: a failed response (a code other than '0', the dict of a transport
\* error included) is never served from the cache by
\* get_account_balance_cached or get_flexible_loan_info_cached: a call that
\* is served from the cache returns a response of code '0', and a call after
\* a failed one sends the request again.
C26_FailedResponseNotServed ==
    (fn.op = "datacache" /\ fn.call.from_cache) =>
        /\ fn.call.data.code = "0"
        /\ fn.written[fn.call.key].data.code = "0"

\* C27: get(key, max_age_seconds) returns data only when the key has a row
\* whose expiry is later than now and which was written less than
\* max_age_seconds ago, and then the data of the last set; a set replaces
\* the row of its key and restarts its expiry and its age.
C27_GetOnlyFreshUnexpired ==
    fn.op = "datacache" =>
        /\ DOMAIN fn.rows = DOMAIN fn.written
        /\ \A k \in DOMAIN fn.rows :
              /\ Loads(fn.rows[k].data) = fn.written[k].data
              /\ fn.rows[k].timestamp = fn.written[k].at
        /\ ( /\ fn.call.name = "get"
             /\ fn.call.seq = nops
             /\ fn.call.data # DcNone ) =>
               /\ fn.call.key \in DOMAIN fn.written
               /\ LET w == fn.written[fn.call.key]
                  IN  /\ fn.call.data = w.data
                      /\ w.at + w.expire_seconds > now
                      /\ now - w.at < fn.call.max_age_seconds

-----------------------------------------------------------------------------
(* SpecTickers: the process of the ticker-snapshot monitor.  main() makes   *)
(* one monitor; its get_all_tickers is wrapped in lru_cache(maxsize=1),     *)
(* whose entry is keyed by the monitor.  The resolver is called any number  *)
(* of times while the clock advances and the exchange answers every request *)
(* it receives in its own way.                                              *)

lru_maxsize == 1
Monitor == "monitor"

TickersLists == {<<"BTC">>, <<"ETH", "BTC">>}

\* what the exchange may answer to a tickers request
TickersResponses ==
    { [code |-> "error", data |-> <<>>],
      [code |-> "0", data |-> <<Ticker("BTC", "USDT", 3)>>],
      [code |-> "0", data |-> <<Ticker("BTC", "USDT", 2), Ticker("ETH", "USDC", 2)>>],
      [code |-> "0", data |-> <<Ticker("BTC", "USDT", 3), Ticker("ETH", "USD", BadLast)>>] }

\* a memoization that keeps no empty result
LruGetAllTickers_dropEmpty(lru, key, response) ==
    LET value == GetAllTickers(response)
    IN  IF \E i \in DOMAIN lru : lru[i].key = key
        THEN [value |-> lru[CHOOSE i \in DOMAIN lru : lru[i].key = key].value,
              lru |-> lru, requests |-> 0]
        ELSE [value |-> value,
              lru |-> IF value = EmptyMap THEN lru
                      ELSE <<[key |-> key, value |-> value]>>,
              requests |-> 1]

\* self.get_all_tickers() under @lru_cache(maxsize=1): the entry of the key
\* is returned; on a miss the function runs, sends its request, and its
\* result takes the place of the oldest entry once maxsize entries are held
LruGetAllTickers(lru, key, response) ==
    IF \E i \in DOMAIN lru : lru[i].key = key
    THEN [value |-> lru[CHOOSE i \in DOMAIN lru : lru[i].key = key].value,
          lru |-> lru, requests |-> 0]
    ELSE LET entry == [key |-> key, value |-> GetAllTickers(response)]
         IN  [value |-> entry.value,
              lru |-> IF Len(lru) < lru_maxsize THEN Append(lru, entry)
                      ELSE Append(Tail(lru), entry),
              requests |-> 1]

InitTickers ==
    /\ now = 0
    /\ store = {}
    /\ pc = [p \in Procs |-> "idle"]
    /\ job = [p \in Procs |-> NoJob]
    /\ ret = NoRet
    /\ committed = [c \in StoreCcy |-> NoWrite]
    /\ price_cache = [p \in Procs |-> EmptyMap]
    /\ cache_timestamp = [p \in Procs |-> 0]
    /\ nops = 0
    /\ last = NoCall
    /\ risk = NoRisk
    /\ batch = NoBatch
    /\ \E order \in SetOrders :
          fn = [op |-> "tickers", order |-> order, lru |-> <<>>, calls |-> 0,
                requests |-> 0, first |-> EmptyMap, first_at |-> 0,
                all_tickers |-> EmptyMap, currencies |-> <<>>,
                prices |-> EmptyMap]

\* prices = self.get_usd_ticker_prices_optimized(currencies), once more
TickersResolverCall ==
    /\ fn.op = "tickers"
    /\ nops < MaxOps
    /\ nops' = nops + 1
    /\ \E currencies \in TickersLists :
       \E response \in IF \E i \in DOMAIN fn.lru : fn.lru[i].key = Monitor
                       THEN {[code |-> "error", data |-> <<>>]}
                       ELSE TickersResponses :
       \E g \in {LruGetAllTickers(fn.lru, Monitor, response)} :
          fn' = [fn EXCEPT
                   !.lru = g.lru,
                   !.calls = @ + 1,
                   !.requests = @ + g.requests,
                   !.first = IF fn.calls = 0 THEN g.value ELSE @,
                   !.first_at = IF fn.calls = 0 THEN now ELSE @,
                   !.all_tickers = g.value,
                   !.currencies = currencies,
                   !.prices = GetUsdTickerPricesOptimized(currencies, g.value,
                                                          fn.order)]
    /\ UNCHANGED <<now, store, storeVars, resolverVars, risk, batch>>

NextTickers ==
    \/ Advance
    \/ TickersResolverCall

SpecTickers == InitTickers /\ [][NextTickers]_vars

(* Claims about the memoized get_all_tickers, checked under SpecTickers *)

\* C30: the monitor of a process sends at most one tickers request however
\* often its resolver is called: every call after the first is given the map
\* the first call produced, the empty map of a failed first call included,
\* and no passage of time refreshes or expires it.
C30_OneTickersRequest ==
    fn.op = "tickers" =>
        /\ fn.requests <= 1
        /\ fn.calls >= 1 =>
              /\ fn.requests = 1
              /\ fn.all_tickers = fn.first
              /\ fn.lru = <<[key |-> Monitor, value |-> fn.first]>>
              /\ fn.prices = GetUsdTickerPricesOptimized(fn.currencies, fn.first,
                                                         fn.order)

\* C30 witness: the first call failed and produced the empty map; a call
\* made more than 300 s after it has still been given the empty map, no
\* second request has been sent and the currency has no price.
C30_Witness ==
    /\ fn.op = "tickers"
    /\ fn.calls >= 2
    /\ fn.requests = 1
    /\ fn.first = EmptyMap
    /\ fn.all_tickers = EmptyMap
    /\ now - fn.first_at > DEFAULT_TTL
    /\ \E c \in DOMAIN fn.prices : fn.prices[c] = 0

====
